---------------------------- MODULE Spec2Model ----------------------------
(***************************************************************************)
(* A model of the blackjack engine of blackjackai.py (Card, Deck, Hand,    *)
(* CardCounter, BankrollManager, BasicStrategy, BlackjackGame) and of the  *)
(* web handlers of blackjackapp.py that drive the same game object.        *)
(*                                                                         *)
(* Money and the true count are Python floats in the source.  They are     *)
(* modelled as exact rationals <<n, d>> (d > 0, lowest terms), so 0.05 *   *)
(* bankroll is bankroll / 20 and 1.5 * bet is 3 * bet / 2; float rounding  *)
(* is not modelled.                                                        *)
(*                                                                         *)
(* random.shuffle can produce every order of the shoe and the order is     *)
(* only observed through dealCard, so the shoe is the bag of the cards it  *)
(* still holds and dealCard takes any card that is left.  Suits are never  *)
(* read by the engine, so a card is its rank.                              *)
(*                                                                         *)
(* playHand is one synchronous call.  Its draws depend on the shoe order,  *)
(* so the call is modelled by its program positions (pc): the entry step   *)
(* (reshuffle check up to the blackjack check), one step per iteration of  *)
(* the player loop, one per iteration of the dealer loop, and settlement.  *)
(* While pc # "idle" only the running call can take a step.                *)
(***************************************************************************)
EXTENDS Integers, Sequences, FiniteSets, TLC

VARIABLES
    numDecks,         \* Deck.numDecks
    cards,            \* Deck.cards, as a bag: rank -> copies still in the shoe
    runningCount,     \* CardCounter.runningCount
    cardsSeen,        \* CardCounter.cardsSeen
    bankroll,         \* BlackjackGame.bankroll
    minBankroll,      \* BlackjackGame.minBankroll
    maxBankroll,      \* BlackjackGame.maxBankroll
    handsPlayed, handsWon, handsLost, handsPushed, handsSatOut,
    totalWagered,     \* BlackjackGame.totalWagered
    startingBankroll, \* the startingBankroll argument of __init__
    baseBet, useCardCounting, useWonging, wongingThreshold,
    penetration,      \* in percent: 75 is the source's 0.75
    reshufflePoint,   \* BlackjackGame.reshufflePoint
    pc,               \* position of the running call: idle, player, dealer
                      \* (noGame: the web handler before its first newGame)
    playerHand,       \* playerHand.cards of the running call (tempHand in the web handler)
    dealerHand,       \* dealerHand.cards of the running call
    betAmount,        \* playerHand.betAmount of the running call
    isDoubled,        \* playerHand.isDoubled of the running call
    handData,         \* what the last call reported (the web handler's handData)
    probe             \* arguments and result of a direct call of a pure function

cfgVars == <<numDecks, startingBankroll, baseBet, useCardCounting, useWonging,
             wongingThreshold, penetration, reshufflePoint>>
shoeVars == <<cards, runningCount, cardsSeen>>
moneyVars == <<bankroll, minBankroll, maxBankroll>>
statVars == <<handsPlayed, handsWon, handsLost, handsPushed, handsSatOut, totalWagered>>
handVars == <<playerHand, dealerHand, betAmount, isDoubled>>
vars == <<cfgVars, shoeVars, moneyVars, statVars, handVars, pc, handData, probe>>

----------------------------------------------------------------------------
(* Bounds of the model.  The program plays a shoe of 6 decks of 4 suits of *)
(* 13 ranks.  The model plays the decks its configuration names (Configs), *)
(* each of 4 suits of the ranks in ShoeRanks, so CardsPerDeck stands for   *)
(* the source's 52; a session plays at most MaxHands rounds.               *)

MaxHands == 2

----------------------------------------------------------------------------
(* Exact rationals.                                                        *)

Abs(i) == IF i < 0 THEN -i ELSE i

RECURSIVE GCD(_, _)
GCD(a, b) == IF b = 0 THEN a ELSE GCD(b, a % b)

Rat(n, d) ==
    LET s == IF d < 0 THEN -1 ELSE 1
        g == GCD(Abs(n), Abs(d))
    IN  <<(s * n) \div g, (s * d) \div g>>

R(i) == <<i, 1>>

LCM(a, b) == (a \div GCD(a, b)) * b

RAdd(x, y) ==
    LET l == LCM(x[2], y[2])
    IN  Rat(x[1] * (l \div x[2]) + y[1] * (l \div y[2]), l)

RNeg(x) == <<-x[1], x[2]>>
RSub(x, y) == RAdd(x, RNeg(y))
RMul(x, y) == Rat(x[1] * y[1], x[2] * y[2])
RDiv(x, y) == Rat(x[1] * y[2], x[2] * y[1])

RLess(x, y) ==
    LET l == LCM(x[2], y[2])
    IN  x[1] * (l \div x[2]) < y[1] * (l \div y[2])

RLeq(x, y) == x = y \/ RLess(x, y)
RMin(x, y) == IF RLess(y, x) THEN y ELSE x
RMax(x, y) == IF RLess(x, y) THEN y ELSE x

(* int(x) of Python: truncation towards zero, of n / d with d > 0.        *)
Trunc(n, d) == IF n >= 0 THEN n \div d ELSE -((-n) \div d)

----------------------------------------------------------------------------
(* Card.                                                                   *)

RANKS == <<"2", "3", "4", "5", "6", "7", "8", "9", "10", "J", "Q", "K", "A">>
RankSet == {RANKS[i] : i \in 1..Len(RANKS)}

CardGetValue(rank) ==
    IF rank \in {"J", "Q", "K"} THEN 10
    ELSE IF rank = "A" THEN 11
    ELSE CHOOSE v \in 2..10 : RANKS[v - 1] = rank

----------------------------------------------------------------------------
(* Deck.                                                                   *)

NumSuits == 4
ShoeRanks == {"A", "K", "6"}
CardsPerDeck == NumSuits * Cardinality(ShoeRanks)
TotalCards(decks) == decks * CardsPerDeck

RECURSIVE BagSize(_, _)
BagSize(bag, S) ==
    IF S = {} THEN 0
    ELSE LET r == CHOOSE x \in S : TRUE IN bag[r] + BagSize(bag, S \ {r})

(* Deck.reset: numDecks copies of every suit and rank.                     *)
DeckReset(decks) == [r \in ShoeRanks |-> decks * NumSuits]

CardsRemaining(deck) == BagSize(deck, ShoeRanks)

DecksRemaining(deck) == Rat(CardsRemaining(deck), CardsPerDeck)

NeedsReshuffleAtPoint(deck, point) == CardsRemaining(deck) <= point
NeedsReshuffle(deck, point) == CardsRemaining(deck) < point

(* The cards dealCard can return, and the shoe it leaves.                  *)
CanDeal(deck) == {r \in ShoeRanks : deck[r] > 0}
DealCard(deck, r) == [deck EXCEPT ![r] = @ - 1]

Occurrences(s, r) == Cardinality({i \in 1..Len(s) : s[i] = r})

(* The orders in which min(k, cards left) successive dealCard calls can    *)
(* come out, and the shoe they leave.                                      *)
DealSeqs(deck, k) ==
    LET n == IF CardsRemaining(deck) < k THEN CardsRemaining(deck) ELSE k
    IN  {s \in [1..n -> ShoeRanks] : \A r \in ShoeRanks : Occurrences(s, r) <= deck[r]}

DealAll(deck, s) == [r \in ShoeRanks |-> deck[r] - Occurrences(s, r)]

----------------------------------------------------------------------------
(* Hand.                                                                   *)

RECURSIVE SumValues(_)
SumValues(hand) ==
    IF hand = <<>> THEN 0 ELSE CardGetValue(Head(hand)) + SumValues(Tail(hand))

NumAces(hand) == Occurrences(hand, "A")

ReduceAcesOnce(totalValue, numAces) ==
    IF totalValue > 21 /\ numAces > 0 THEN totalValue - 10 ELSE totalValue

RECURSIVE ReduceAces(_, _)
ReduceAces(totalValue, numAces) ==
    IF totalValue > 21 /\ numAces > 0
    THEN ReduceAces(totalValue - 10, numAces - 1)
    ELSE totalValue

HandGetValue(hand) == ReduceAces(SumValues(hand), NumAces(hand))

IsSoft(hand) == NumAces(hand) > 0 /\ SumValues(hand) <= 21

IsBlackjackFromTwenty(hand) == Len(hand) = 2 /\ HandGetValue(hand) >= 20
IsBlackjack(hand) == Len(hand) = 2 /\ HandGetValue(hand) = 21

IsBustedAbove22(hand) == HandGetValue(hand) > 22
IsBusted(hand) == HandGetValue(hand) > 21

CanSplit(hand) == Len(hand) = 2 /\ CardGetValue(hand[1]) = CardGetValue(hand[2])

----------------------------------------------------------------------------
(* CardCounter.                                                            *)

HiLoTenNeutral(rank) ==
    IF rank \in {"2", "3", "4", "5", "6"} THEN 1
    ELSE IF rank \in {"7", "8", "9", "10"} THEN 0
    ELSE -1

HiLo(rank) ==
    IF rank \in {"2", "3", "4", "5", "6"} THEN 1
    ELSE IF rank \in {"7", "8", "9"} THEN 0
    ELSE -1

(* countCard: the running count and cardsSeen after the card.              *)
CountCardAceSkipped(count, rank) == IF rank = "A" THEN count ELSE count + HiLo(rank)
CountCard(count, rank) == count + HiLo(rank)
SeeCard(seen, rank) == seen + 1

RECURSIVE CountCards(_, _)
CountCards(count, s) ==
    IF s = <<>> THEN count ELSE CountCards(CountCard(count, Head(s)), Tail(s))

RECURSIVE SeeCards(_, _)
SeeCards(seen, s) ==
    IF s = <<>> THEN seen ELSE SeeCards(SeeCard(seen, Head(s)), Tail(s))

GetTrueCount(count, decksRemaining) ==
    IF RLeq(decksRemaining, R(0)) THEN R(0) ELSE RDiv(R(count), decksRemaining)

----------------------------------------------------------------------------
(* BankrollManager.                                                        *)

MaxBetMultiplier == 10

MultiplierSwapped(trueCount) ==
    IF RLess(trueCount, R(1)) THEN 1
    ELSE IF RLess(trueCount, R(2)) THEN 2
    ELSE IF RLess(trueCount, R(3)) THEN 6
    ELSE IF RLess(trueCount, R(4)) THEN 4
    ELSE 8

Multiplier(trueCount) ==
    IF RLess(trueCount, R(1)) THEN 1
    ELSE IF RLess(trueCount, R(2)) THEN 2
    ELSE IF RLess(trueCount, R(3)) THEN 4
    ELSE IF RLess(trueCount, R(4)) THEN 6
    ELSE 8

GetBetAmountWithoutRiskCap(trueCount, currentBankroll, base, maxBetMultiplier) ==
    LET multiplier == RMin(R(Multiplier(trueCount)), maxBetMultiplier)
        raw == RMul(base, multiplier)
    IN  RMax(base, RMin(raw, currentBankroll))

GetBetAmount(trueCount, currentBankroll, base, maxBetMultiplier) ==
    LET multiplier == RMin(R(Multiplier(trueCount)), maxBetMultiplier)
        raw == RMul(base, multiplier)
        maxAllowedBet == RMul(currentBankroll, Rat(5, 100))
        capped == RMin(RMin(raw, maxAllowedBet), currentBankroll)
    IN  RMax(base, capped)

----------------------------------------------------------------------------
(* BasicStrategy.                                                          *)

HIT == "Hit"
STAND == "Stand"
DOUBLE == "Double Down"
SPLIT == "Split"

HardHandStrategyTwelveVsThree(playerValue, dealerValue, canDouble) ==
    IF playerValue >= 17 THEN STAND
    ELSE IF 13 <= playerValue /\ playerValue <= 16
         THEN (IF 2 <= dealerValue /\ dealerValue <= 6 THEN STAND ELSE HIT)
    ELSE IF playerValue = 12
         THEN (IF 3 <= dealerValue /\ dealerValue <= 6 THEN STAND ELSE HIT)
    ELSE IF playerValue = 11
         THEN (IF canDouble THEN DOUBLE ELSE HIT)
    ELSE IF playerValue = 10
         THEN (IF canDouble /\ dealerValue <= 9 THEN DOUBLE ELSE HIT)
    ELSE IF playerValue = 9
         THEN (IF canDouble /\ 3 <= dealerValue /\ dealerValue <= 6 THEN DOUBLE ELSE HIT)
    ELSE HIT

HardHandStrategy(playerValue, dealerValue, canDouble) ==
    IF playerValue >= 17 THEN STAND
    ELSE IF 13 <= playerValue /\ playerValue <= 16
         THEN (IF 2 <= dealerValue /\ dealerValue <= 6 THEN STAND ELSE HIT)
    ELSE IF playerValue = 12
         THEN (IF 4 <= dealerValue /\ dealerValue <= 6 THEN STAND ELSE HIT)
    ELSE IF playerValue = 11
         THEN (IF canDouble THEN DOUBLE ELSE HIT)
    ELSE IF playerValue = 10
         THEN (IF canDouble /\ dealerValue <= 9 THEN DOUBLE ELSE HIT)
    ELSE IF playerValue = 9
         THEN (IF canDouble /\ 3 <= dealerValue /\ dealerValue <= 6 THEN DOUBLE ELSE HIT)
    ELSE HIT

SoftHandStrategy(playerValue, dealerValue, canDouble) ==
    IF playerValue >= 19 THEN STAND
    ELSE IF playerValue = 18
         THEN (IF canDouble /\ dealerValue \in {3, 4, 5, 6} THEN DOUBLE
               ELSE IF dealerValue \in {2, 7, 8} THEN STAND
               ELSE HIT)
    ELSE IF playerValue = 17
         THEN (IF canDouble /\ dealerValue \in {3, 4, 5, 6} THEN DOUBLE ELSE HIT)
    ELSE IF playerValue \in {15, 16}
         THEN (IF canDouble /\ dealerValue \in {4, 5, 6} THEN DOUBLE ELSE HIT)
    ELSE IF playerValue \in {13, 14}
         THEN (IF canDouble /\ dealerValue \in {5, 6} THEN DOUBLE ELSE HIT)
    ELSE HIT

PairSplittingStrategyNinesVsSeven(hand, dealerValue) ==
    LET cardValue == CardGetValue(hand[1])
        hard == HardHandStrategy(HandGetValue(hand), dealerValue, TRUE)
    IN  IF cardValue = 11 \/ cardValue = 8 THEN SPLIT
        ELSE IF cardValue = 5 \/ cardValue = 10 THEN hard
        ELSE IF cardValue \in {2, 3, 7} /\ 2 <= dealerValue /\ dealerValue <= 7 THEN SPLIT
        ELSE IF cardValue = 4 /\ 5 <= dealerValue /\ dealerValue <= 6 THEN SPLIT
        ELSE IF cardValue = 6 /\ 2 <= dealerValue /\ dealerValue <= 6 THEN SPLIT
        ELSE IF cardValue = 9 /\ 2 <= dealerValue /\ dealerValue <= 9 THEN SPLIT
        ELSE hard

PairSplittingStrategy(hand, dealerValue) ==
    LET cardValue == CardGetValue(hand[1])
        hard == HardHandStrategy(HandGetValue(hand), dealerValue, TRUE)
    IN  IF cardValue = 11 \/ cardValue = 8 THEN SPLIT
        ELSE IF cardValue = 5 \/ cardValue = 10 THEN hard
        ELSE IF cardValue \in {2, 3, 7} /\ 2 <= dealerValue /\ dealerValue <= 7 THEN SPLIT
        ELSE IF cardValue = 4 /\ 5 <= dealerValue /\ dealerValue <= 6 THEN SPLIT
        ELSE IF cardValue = 6 /\ 2 <= dealerValue /\ dealerValue <= 6 THEN SPLIT
        ELSE IF cardValue = 9 /\ ((2 <= dealerValue /\ dealerValue <= 6)
                                   \/ (8 <= dealerValue /\ dealerValue <= 9)) THEN SPLIT
        ELSE hard

GetActionSplitsUnasked(hand, dealerUpcard, canDouble, canSplit) ==
    LET playerValue == HandGetValue(hand)
        dealerValue == CardGetValue(dealerUpcard)
    IN  IF CanSplit(hand) THEN PairSplittingStrategy(hand, dealerValue)
        ELSE IF IsSoft(hand) /\ Len(hand) = 2
             THEN SoftHandStrategy(playerValue, dealerValue, canDouble)
        ELSE HardHandStrategy(playerValue, dealerValue, canDouble)

GetAction(hand, dealerUpcard, canDouble, canSplit) ==
    LET playerValue == HandGetValue(hand)
        dealerValue == CardGetValue(dealerUpcard)
    IN  IF canSplit /\ CanSplit(hand) THEN PairSplittingStrategy(hand, dealerValue)
        ELSE IF IsSoft(hand) /\ Len(hand) = 2
             THEN SoftHandStrategy(playerValue, dealerValue, canDouble)
        ELSE HardHandStrategy(playerValue, dealerValue, canDouble)

----------------------------------------------------------------------------
(* BlackjackGame.__init__.                                                 *)

Config(decks, sb, bb, counting, wonging, threshold, pen) ==
    [numDecks |-> decks, startingBankroll |-> sb, baseBet |-> bb,
     useCardCounting |-> counting, useWonging |-> wonging,
     wongingThreshold |-> threshold, penetration |-> pen]

(* The session configurations tried.  The constructor checks none of its   *)
(* arguments, so the last two are accepted like the others.                *)
Configs ==
    {Config(1, R(15), R(10), FALSE, FALSE, R(-1), 75),
     Config(1, R(1000), R(10), TRUE, TRUE, R(-1), 40),
     Config(1, R(15), R(10), FALSE, FALSE, R(-1), 40),
     Config(1, R(1000), R(10), FALSE, TRUE, R(-1), 75),
     Config(1, R(0), R(10), TRUE, FALSE, R(-1), 75),
     Config(1, R(15), R(0), TRUE, FALSE, R(-1), 0)}

(* int(numDecks * 52 * (1 - penetration)), penetration in percent.         *)
ReshufflePoint(decks, pen) == Trunc(TotalCards(decks) * (100 - pen), 100)

NoHandData ==
    [result |-> "none", profit |-> R(0), bet |-> R(0), reshuffle |-> FALSE,
     runningCount |-> 0, trueCount |-> R(0), bankrollBefore |-> R(0), drawn |-> 0,
     playerHand |-> <<>>, dealerHand |-> <<>>]

NoProbe == [fn |-> "none"]

NewSession(c) ==
    /\ numDecks = c.numDecks
    /\ cards = DeckReset(c.numDecks)
    /\ bankroll = c.startingBankroll
    /\ startingBankroll = c.startingBankroll
    /\ baseBet = c.baseBet
    /\ useCardCounting = c.useCardCounting
    /\ useWonging = c.useWonging
    /\ wongingThreshold = c.wongingThreshold
    /\ penetration = c.penetration
    /\ reshufflePoint = ReshufflePoint(c.numDecks, c.penetration)
    /\ runningCount = 0
    /\ cardsSeen = 0
    /\ handsPlayed = 0
    /\ handsWon = 0
    /\ handsLost = 0
    /\ handsPushed = 0
    /\ handsSatOut = 0
    /\ totalWagered = R(0)
    /\ maxBankroll = c.startingBankroll
    /\ minBankroll = c.startingBankroll

NoCall ==
    /\ pc = "idle"
    /\ playerHand = <<>>
    /\ dealerHand = <<>>
    /\ betAmount = R(0)
    /\ isDoubled = FALSE
    /\ handData = NoHandData

Init ==
    /\ \E c \in Configs : NewSession(c)
    /\ NoCall
    /\ probe = NoProbe

----------------------------------------------------------------------------
(* BlackjackGame.playHand: the entry step.                                 *)

Rounds == handsPlayed + handsSatOut

(* Lines 441-482: the reshuffle check, and on the shoe and the counter it  *)
(* leaves, the true count, the sit-out decision and the bet.               *)
Entry ==
    LET reshuffle == NeedsReshuffle(cards, reshufflePoint)
        deck == IF reshuffle THEN DeckReset(numDecks) ELSE cards
        count == IF reshuffle THEN 0 ELSE runningCount
        seen == IF reshuffle THEN 0 ELSE cardsSeen
        trueCount == GetTrueCount(count, DecksRemaining(deck))
    IN  [reshuffle |-> reshuffle, deck |-> deck, count |-> count, seen |-> seen,
         trueCount |-> trueCount,
         sitsOut |-> useWonging /\ RLess(trueCount, wongingThreshold),
         bet |-> IF useCardCounting
                 THEN GetBetAmount(trueCount, bankroll, baseBet, R(MaxBetMultiplier))
                 ELSE baseBet]

(* The initial deal alternates: player, dealer, player, dealer.            *)
PlayerCards(s) == [i \in 1..((Len(s) + 1) \div 2) |-> s[2 * i - 1]]
DealerCards(s) == [i \in 1..(Len(s) \div 2) |-> s[2 * i]]

(* What the call has to report after its entry step: whether it rebuilt    *)
(* the shoe, the count and the true count it decided on, the bet, and the  *)
(* cards of the initial deal.                                              *)
EntryData(e, result, profit, s) ==
    [result |-> result, profit |-> profit, bet |-> e.bet, reshuffle |-> e.reshuffle,
     runningCount |-> e.count, trueCount |-> e.trueCount,
     bankrollBefore |-> bankroll, drawn |-> Len(s),
     playerHand |-> PlayerCards(s), dealerHand |-> DealerCards(s)]

UpdateBankrollStatsMaxOnly(b) ==
    /\ maxBankroll' = RMax(maxBankroll, b)
    /\ minBankroll' = minBankroll

(* updateBankrollStats, given the bankroll it reads.                       *)
UpdateBankrollStats(b) ==
    /\ maxBankroll' = RMax(maxBankroll, b)
    /\ minBankroll' = RMin(minBankroll, b)

(* The cards s leave the shoe and each is counted.                         *)
DealAndCount(deck, count, seen, s) ==
    /\ cards' = DealAll(deck, s)
    /\ runningCount' = CountCards(count, s)
    /\ cardsSeen' = SeeCards(seen, s)

EndCall ==
    /\ pc' = "idle"
    /\ playerHand' = <<>>
    /\ dealerHand' = <<>>
    /\ betAmount' = R(0)
    /\ isDoubled' = FALSE

(* Lines 453-476: the round is sat out and up to four cards are burned.    *)
PlayHandSitOut(e) ==
    /\ e.sitsOut
    /\ \E s \in DealSeqs(e.deck, 4) :
          /\ DealAndCount(e.deck, e.count, e.seen, s)
          /\ handData' = [EntryData(e, "satOut", R(0), s) EXCEPT
                              !.bet = R(0), !.playerHand = <<>>, !.dealerHand = <<>>]
    /\ handsSatOut' = handsSatOut + 1
    /\ EndCall
    /\ UNCHANGED <<cfgVars, moneyVars, handsPlayed, handsWon, handsLost, handsPushed,
                   totalWagered, probe>>

(* Lines 484-488: the bet exceeds the bankroll.                            *)
PlayHandBroke(e) ==
    /\ ~e.sitsOut
    /\ RLess(bankroll, e.bet)
    /\ DealAndCount(e.deck, e.count, e.seen, <<>>)
    /\ handData' = EntryData(e, "outOfMoney", R(0), <<>>)
    /\ EndCall
    /\ UNCHANGED <<cfgVars, moneyVars, statVars, probe>>

(* Lines 523-552: the blackjack check on the hands dealt.                  *)
BlackjackCheck(e, s) ==
    LET player == PlayerCards(s)
        dealer == DealerCards(s)
    IN  IF IsBlackjack(player) /\ IsBlackjack(dealer)
        THEN /\ handsPushed' = handsPushed + 1
             /\ handsPlayed' = handsPlayed + 1
             /\ handData' = EntryData(e, "push", R(0), s)
             /\ EndCall
             /\ UNCHANGED <<moneyVars, handsWon, handsLost>>
        ELSE IF IsBlackjack(player)
        THEN LET profit == RMul(e.bet, Rat(15, 10))
             IN  /\ bankroll' = RAdd(bankroll, profit)
                 /\ handsWon' = handsWon + 1
                 /\ handsPlayed' = handsPlayed + 1
                 /\ UpdateBankrollStats(bankroll')
                 /\ handData' = EntryData(e, "playerBlackjack", profit, s)
                 /\ EndCall
                 /\ UNCHANGED <<handsLost, handsPushed>>
        ELSE IF IsBlackjack(dealer)
        THEN /\ bankroll' = RSub(bankroll, e.bet)
             /\ handsLost' = handsLost + 1
             /\ handsPlayed' = handsPlayed + 1
             /\ UpdateBankrollStats(bankroll')
             /\ handData' = EntryData(e, "dealerBlackjack", RNeg(e.bet), s)
             /\ EndCall
             /\ UNCHANGED <<handsWon, handsPushed>>
        ELSE /\ pc' = "player"
             /\ playerHand' = player
             /\ dealerHand' = dealer
             /\ betAmount' = e.bet
             /\ isDoubled' = FALSE
             /\ handData' = EntryData(e, "playing", R(0), s)
             /\ UNCHANGED <<moneyVars, handsPlayed, handsWon, handsLost, handsPushed>>

(* Lines 490-552: the initial deal and the blackjack check.  With fewer    *)
(* than four cards in the shoe, dealCard raises IndexError on the first    *)
(* empty pop and the call ends there.                                      *)
PlayHandDeal(e) ==
    /\ ~e.sitsOut
    /\ ~RLess(bankroll, e.bet)
    /\ \E s \in DealSeqs(e.deck, 4) :
          /\ DealAndCount(e.deck, e.count, e.seen, s)
          /\ IF Len(s) < 4
             THEN /\ handData' = EntryData(e, "IndexError", R(0), s)
                  /\ EndCall
                  /\ UNCHANGED <<moneyVars, statVars>>
             ELSE /\ totalWagered' = RAdd(totalWagered, e.bet)
                  /\ handsSatOut' = handsSatOut
                  /\ BlackjackCheck(e, s)
    /\ UNCHANGED <<cfgVars, probe>>

PlayHand ==
    /\ pc = "idle"
    /\ Rounds < MaxHands
    /\ LET e == Entry
       IN  PlayHandSitOut(e) \/ PlayHandBroke(e) \/ PlayHandDeal(e)

----------------------------------------------------------------------------
(* BlackjackGame.playPlayerHand: one iteration of the loop, and lines      *)
(* 557-561 of playHand when the player busts.                              *)

CanDouble == Len(playerHand) = 2 /\ RLeq(betAmount, bankroll)

PlayerAction == GetAction(playerHand, dealerHand[1], CanDouble, FALSE)

(* dealCard raised IndexError in the player's or the dealer's loop.        *)
RaiseIndexError ==
    /\ handData' = [handData EXCEPT !.result = "IndexError"]
    /\ EndCall
    /\ UNCHANGED <<cfgVars, shoeVars, moneyVars, statVars, probe>>

PlayerDrawBustNotPlayed(wager, doubling) ==
    IF CanDeal(cards) = {}
    THEN RaiseIndexError
    ELSE \E r \in CanDeal(cards) :
            LET hand == Append(playerHand, r)
            IN  /\ DealAndCount(cards, runningCount, cardsSeen, <<r>>)
                /\ IF IsBusted(hand)
                   THEN /\ bankroll' = RSub(bankroll, wager)
                        /\ handsLost' = handsLost + 1
                        /\ handsPlayed' = handsPlayed
                        /\ UpdateBankrollStats(bankroll')
                        /\ handData' = [handData EXCEPT !.result = "playerBust",
                                                        !.profit = RNeg(wager),
                                                        !.bet = wager,
                                                        !.drawn = @ + 1]
                        /\ EndCall
                        /\ UNCHANGED <<handsWon, handsPushed, handsSatOut, totalWagered>>
                   ELSE /\ pc' = IF doubling THEN "dealer" ELSE "player"
                        /\ playerHand' = hand
                        /\ betAmount' = wager
                        /\ isDoubled' = (isDoubled \/ doubling)
                        /\ dealerHand' = dealerHand
                        /\ handData' = [handData EXCEPT !.bet = wager, !.drawn = @ + 1]
                        /\ UNCHANGED <<moneyVars, statVars>>
                /\ UNCHANGED <<cfgVars, probe>>

(* The player takes one card at the given wager; doubling ends the turn.   *)
PlayerDraw(wager, doubling) ==
    IF CanDeal(cards) = {}
    THEN RaiseIndexError
    ELSE \E r \in CanDeal(cards) :
            LET hand == Append(playerHand, r)
            IN  /\ DealAndCount(cards, runningCount, cardsSeen, <<r>>)
                /\ IF IsBusted(hand)
                   THEN /\ bankroll' = RSub(bankroll, wager)
                        /\ handsLost' = handsLost + 1
                        /\ handsPlayed' = handsPlayed + 1
                        /\ UpdateBankrollStats(bankroll')
                        /\ handData' = [handData EXCEPT !.result = "playerBust",
                                                        !.profit = RNeg(wager),
                                                        !.bet = wager,
                                                        !.drawn = @ + 1]
                        /\ EndCall
                        /\ UNCHANGED <<handsWon, handsPushed, handsSatOut, totalWagered>>
                   ELSE /\ pc' = IF doubling THEN "dealer" ELSE "player"
                        /\ playerHand' = hand
                        /\ betAmount' = wager
                        /\ isDoubled' = (isDoubled \/ doubling)
                        /\ dealerHand' = dealerHand
                        /\ handData' = [handData EXCEPT !.bet = wager, !.drawn = @ + 1]
                        /\ UNCHANGED <<moneyVars, statVars>>
                /\ UNCHANGED <<cfgVars, probe>>

PlayerStand ==
    /\ PlayerAction = STAND
    /\ pc' = "dealer"
    /\ UNCHANGED <<cfgVars, shoeVars, moneyVars, statVars, handVars, handData, probe>>

PlayerHit ==
    /\ PlayerAction = HIT \/ (PlayerAction = DOUBLE /\ ~CanDouble)
    /\ PlayerDraw(betAmount, FALSE)

PlayerDouble ==
    /\ PlayerAction = DOUBLE
    /\ CanDouble
    /\ PlayerDraw(RMul(betAmount, R(2)), TRUE)

PlayPlayerHand ==
    /\ pc = "player"
    /\ (PlayerStand \/ PlayerHit \/ PlayerDouble)

----------------------------------------------------------------------------
(* BlackjackGame.playHand: the dealer's loop, one iteration per step.      *)

DealerMustDraw(hand) == HandGetValue(hand) < 17

DealerTurn ==
    /\ pc = "dealer"
    /\ DealerMustDraw(dealerHand)
    /\ IF CanDeal(cards) = {}
       THEN RaiseIndexError
       ELSE \E r \in CanDeal(cards) :
               /\ DealAndCount(cards, runningCount, cardsSeen, <<r>>)
               /\ dealerHand' = Append(dealerHand, r)
               /\ handData' = [handData EXCEPT !.drawn = @ + 1]
               /\ UNCHANGED <<cfgVars, moneyVars, statVars, pc, playerHand, betAmount,
                              isDoubled, probe>>

DetermineWinnerTiesLose ==
    /\ pc = "dealer"
    /\ ~DealerMustDraw(dealerHand)
    /\ LET playerValue == HandGetValue(playerHand)
           dealerValue == HandGetValue(dealerHand)
       IN  IF IsBusted(dealerHand) \/ playerValue > dealerValue
           THEN /\ bankroll' = RAdd(bankroll, betAmount)
                /\ handsWon' = handsWon + 1
                /\ handData' = [handData EXCEPT !.result = "playerWin", !.profit = betAmount]
                /\ UNCHANGED <<handsLost, handsPushed>>
           ELSE /\ bankroll' = RSub(bankroll, betAmount)
                /\ handsLost' = handsLost + 1
                /\ handData' = [handData EXCEPT !.result = "dealerWin",
                                                !.profit = RNeg(betAmount)]
                /\ UNCHANGED <<handsWon, handsPushed>>
    /\ handsPlayed' = handsPlayed + 1
    /\ UpdateBankrollStats(bankroll')
    /\ EndCall
    /\ UNCHANGED <<cfgVars, shoeVars, handsSatOut, totalWagered, probe>>

(* determineWinner, then lines 583-586 of playHand.                        *)
DetermineWinner ==
    /\ pc = "dealer"
    /\ ~DealerMustDraw(dealerHand)
    /\ LET playerValue == HandGetValue(playerHand)
           dealerValue == HandGetValue(dealerHand)
       IN  IF IsBusted(dealerHand) \/ playerValue > dealerValue
           THEN /\ bankroll' = RAdd(bankroll, betAmount)
                /\ handsWon' = handsWon + 1
                /\ handData' = [handData EXCEPT !.result = "playerWin", !.profit = betAmount]
                /\ UNCHANGED <<handsLost, handsPushed>>
           ELSE IF playerValue < dealerValue
           THEN /\ bankroll' = RSub(bankroll, betAmount)
                /\ handsLost' = handsLost + 1
                /\ handData' = [handData EXCEPT !.result = "dealerWin",
                                                !.profit = RNeg(betAmount)]
                /\ UNCHANGED <<handsWon, handsPushed>>
           ELSE /\ bankroll' = bankroll
                /\ handsPushed' = handsPushed + 1
                /\ handData' = [handData EXCEPT !.result = "push"]
                /\ UNCHANGED <<handsWon, handsLost>>
    /\ handsPlayed' = handsPlayed + 1
    /\ UpdateBankrollStats(bankroll')
    /\ EndCall
    /\ UNCHANGED <<cfgVars, shoeVars, handsSatOut, totalWagered, probe>>

----------------------------------------------------------------------------
Next == PlayHand \/ PlayPlayerHand \/ DealerTurn \/ DetermineWinner

Spec == Init /\ [][Next]_vars

----------------------------------------------------------------------------
(* blackjackapp.py: the web handlers.  One game at a time is held in the   *)
(* global game; pc = "noGame" stands for game = None.  The hand record the *)
(* handler builds is handData.                                             *)

(* calculateHandValue.                                                     *)
CalculateHandValue(hand) == ReduceAces(SumValues(hand), NumAces(hand))

InitApp ==
    /\ NewSession(Config(1, R(1000), R(10), TRUE, TRUE, R(-1), 75))
    /\ pc = "noGame"
    /\ playerHand = <<>>
    /\ dealerHand = <<>>
    /\ betAmount = R(0)
    /\ isDoubled = FALSE
    /\ handData = NoHandData
    /\ probe = NoProbe

(* playHand with no game started: the 400 answer.                          *)
ApiNoGame ==
    /\ pc = "noGame"
    /\ handData' = [NoHandData EXCEPT !.result = "noGame"]
    /\ UNCHANGED <<cfgVars, shoeVars, moneyVars, statVars, handVars, pc, probe>>

(* newGame: a BlackjackGame is built from the posted settings and replaces *)
(* the global game; the history is emptied.                                *)
ApiNewGame ==
    /\ pc \in {"noGame", "idle"}
    /\ \E c \in Configs :
          /\ numDecks' = c.numDecks
          /\ cards' = DeckReset(c.numDecks)
          /\ bankroll' = c.startingBankroll
          /\ startingBankroll' = c.startingBankroll
          /\ baseBet' = c.baseBet
          /\ useCardCounting' = c.useCardCounting
          /\ useWonging' = c.useWonging
          /\ wongingThreshold' = c.wongingThreshold
          /\ penetration' = c.penetration
          /\ reshufflePoint' = ReshufflePoint(c.numDecks, c.penetration)
          /\ maxBankroll' = c.startingBankroll
          /\ minBankroll' = c.startingBankroll
    /\ runningCount' = 0
    /\ cardsSeen' = 0
    /\ handsPlayed' = 0
    /\ handsWon' = 0
    /\ handsLost' = 0
    /\ handsPushed' = 0
    /\ handsSatOut' = 0
    /\ totalWagered' = R(0)
    /\ handData' = NoHandData
    /\ EndCall
    /\ UNCHANGED probe

(* Lines 58-65 and 67-72: the record is opened with the count and the true *)
(* count read before the reshuffle check; the check then marks it.         *)
ApiEntryData(e, result, profit, s) ==
    [EntryData(e, result, profit, s) EXCEPT
        !.runningCount = runningCount,
        !.trueCount = GetTrueCount(runningCount, DecksRemaining(cards))]

(* Lines 74-100: the round is sat out.                                     *)
ApiSitOut(e) ==
    /\ e.sitsOut
    /\ \E s \in DealSeqs(e.deck, 4) :
          /\ DealAndCount(e.deck, e.count, e.seen, s)
          /\ handData' = [ApiEntryData(e, "satOut", R(0), s) EXCEPT
                              !.bet = R(0), !.playerHand = <<>>, !.dealerHand = <<>>]
    /\ handsSatOut' = handsSatOut + 1
    /\ EndCall
    /\ UNCHANGED <<cfgVars, moneyVars, handsPlayed, handsWon, handsLost, handsPushed,
                   totalWagered, probe>>

(* Line 105: betAmount / game.baseBet raises ZeroDivisionError when the    *)
(* base bet is 0; the reshuffle has been applied by then.                  *)
ApiZeroDivision(e) ==
    /\ ~e.sitsOut
    /\ baseBet = R(0)
    /\ DealAndCount(e.deck, e.count, e.seen, <<>>)
    /\ handData' = ApiEntryData(e, "ZeroDivisionError", R(0), <<>>)
    /\ EndCall
    /\ UNCHANGED <<cfgVars, moneyVars, statVars, probe>>

(* Lines 130-165: the blackjack check; lines 167-175 open the player's     *)
(* turn otherwise.                                                         *)
ApiBlackjackCheck(e, s) ==
    LET player == PlayerCards(s)
        dealer == DealerCards(s)
        playerBlackjack == Len(player) = 2 /\ CalculateHandValue(player) = 21
        dealerBlackjack == Len(dealer) = 2 /\ CalculateHandValue(dealer) = 21
    IN  IF playerBlackjack \/ dealerBlackjack
        THEN /\ IF playerBlackjack /\ dealerBlackjack
                THEN /\ handsPushed' = handsPushed + 1
                     /\ handData' = ApiEntryData(e, "push", R(0), s)
                     /\ UNCHANGED <<bankroll, handsWon, handsLost>>
                ELSE IF playerBlackjack
                THEN /\ bankroll' = RAdd(bankroll, RMul(e.bet, Rat(15, 10)))
                     /\ handsWon' = handsWon + 1
                     /\ handData' = ApiEntryData(e, "playerBlackjack",
                                                 RMul(e.bet, Rat(15, 10)), s)
                     /\ UNCHANGED <<handsLost, handsPushed>>
                ELSE /\ bankroll' = RSub(bankroll, e.bet)
                     /\ handsLost' = handsLost + 1
                     /\ handData' = ApiEntryData(e, "dealerBlackjack", RNeg(e.bet), s)
                     /\ UNCHANGED <<handsWon, handsPushed>>
             /\ handsPlayed' = handsPlayed + 1
             /\ totalWagered' = RAdd(totalWagered, e.bet)
             /\ UpdateBankrollStats(bankroll')
             /\ EndCall
        ELSE /\ pc' = "player"
             /\ playerHand' = player
             /\ dealerHand' = dealer
             /\ betAmount' = e.bet
             /\ isDoubled' = FALSE
             /\ handData' = ApiEntryData(e, "playing", R(0), s)
             /\ UNCHANGED <<moneyVars, handsPlayed, handsWon, handsLost, handsPushed,
                            totalWagered>>

(* Lines 103-165: the bet, with no check against the bankroll, the deal    *)
(* and the blackjack check.                                                *)
ApiDeal(e) ==
    /\ ~e.sitsOut
    /\ baseBet # R(0)
    /\ \E s \in DealSeqs(e.deck, 4) :
          /\ DealAndCount(e.deck, e.count, e.seen, s)
          /\ IF Len(s) < 4
             THEN /\ handData' = ApiEntryData(e, "IndexError", R(0), s)
                  /\ EndCall
                  /\ UNCHANGED <<moneyVars, statVars>>
             ELSE /\ handsSatOut' = handsSatOut
                  /\ ApiBlackjackCheck(e, s)
    /\ UNCHANGED <<cfgVars, probe>>

ApiPlayHand ==
    /\ pc = "idle"
    /\ Rounds < MaxHands
    /\ LET e == Entry
       IN  ApiSitOut(e) \/ ApiZeroDivision(e) \/ ApiDeal(e)

(* Lines 177-273: one iteration of the player's loop.                      *)
ApiPlayerDraw(wager, doubling) ==
    IF CanDeal(cards) = {}
    THEN RaiseIndexError
    ELSE \E r \in CanDeal(cards) :
            LET hand == Append(playerHand, r)
            IN  /\ DealAndCount(cards, runningCount, cardsSeen, <<r>>)
                /\ IF IsBusted(hand)
                   THEN /\ bankroll' = RSub(bankroll, wager)
                        /\ handsLost' = handsLost + 1
                        /\ handsPlayed' = handsPlayed + 1
                        /\ totalWagered' = RAdd(totalWagered, wager)
                        /\ UpdateBankrollStats(bankroll')
                        /\ handData' = [handData EXCEPT !.result = "playerBust",
                                                        !.profit = RNeg(wager),
                                                        !.bet = wager,
                                                        !.drawn = @ + 1]
                        /\ EndCall
                        /\ UNCHANGED <<handsWon, handsPushed, handsSatOut>>
                   ELSE /\ pc' = IF doubling THEN "dealer" ELSE "player"
                        /\ playerHand' = hand
                        /\ betAmount' = wager
                        /\ isDoubled' = (isDoubled \/ doubling)
                        /\ dealerHand' = dealerHand
                        /\ handData' = [handData EXCEPT !.bet = wager, !.drawn = @ + 1]
                        /\ UNCHANGED <<moneyVars, statVars>>
                /\ UNCHANGED <<cfgVars, probe>>

ApiPlayerStand ==
    /\ PlayerAction = STAND
    /\ pc' = "dealer"
    /\ UNCHANGED <<cfgVars, shoeVars, moneyVars, statVars, handVars, handData, probe>>

ApiPlayerHit ==
    /\ PlayerAction = HIT \/ (PlayerAction = DOUBLE /\ ~CanDouble)
    /\ ApiPlayerDraw(betAmount, FALSE)

ApiPlayerDouble ==
    /\ PlayerAction = DOUBLE
    /\ CanDouble
    /\ ApiPlayerDraw(RMul(betAmount, R(2)), TRUE)

ApiPlayPlayerHand ==
    /\ pc = "player"
    /\ (ApiPlayerStand \/ ApiPlayerHit \/ ApiPlayerDouble)

(* Lines 275-285: the dealer's loop, one iteration per step.               *)
ApiDealerTurn ==
    /\ pc = "dealer"
    /\ HandGetValue(dealerHand) < 17
    /\ IF CanDeal(cards) = {}
       THEN RaiseIndexError
       ELSE \E r \in CanDeal(cards) :
               /\ DealAndCount(cards, runningCount, cardsSeen, <<r>>)
               /\ dealerHand' = Append(dealerHand, r)
               /\ handData' = [handData EXCEPT !.drawn = @ + 1]
               /\ UNCHANGED <<cfgVars, moneyVars, statVars, pc, playerHand, betAmount,
                              isDoubled, probe>>

(* Lines 287-326: the settlement.                                          *)
ApiDetermineWinner ==
    /\ pc = "dealer"
    /\ ~(HandGetValue(dealerHand) < 17)
    /\ LET playerValue == HandGetValue(playerHand)
           dealerValue == HandGetValue(dealerHand)
       IN  IF IsBusted(dealerHand) \/ playerValue > dealerValue
           THEN /\ bankroll' = RAdd(bankroll, betAmount)
                /\ handsWon' = handsWon + 1
                /\ handData' = [handData EXCEPT !.result = "playerWin", !.profit = betAmount]
                /\ UNCHANGED <<handsLost, handsPushed>>
           ELSE IF playerValue < dealerValue
           THEN /\ bankroll' = RSub(bankroll, betAmount)
                /\ handsLost' = handsLost + 1
                /\ handData' = [handData EXCEPT !.result = "dealerWin",
                                                !.profit = RNeg(betAmount)]
                /\ UNCHANGED <<handsWon, handsPushed>>
           ELSE /\ bankroll' = bankroll
                /\ handsPushed' = handsPushed + 1
                /\ handData' = [handData EXCEPT !.result = "push"]
                /\ UNCHANGED <<handsWon, handsLost>>
    /\ handsPlayed' = handsPlayed + 1
    /\ totalWagered' = RAdd(totalWagered, betAmount)
    /\ UpdateBankrollStats(bankroll')
    /\ EndCall
    /\ UNCHANGED <<cfgVars, shoeVars, handsSatOut, probe>>

NextApp ==
    \/ ApiNoGame
    \/ ApiNewGame
    \/ ApiPlayHand
    \/ ApiPlayPlayerHand
    \/ ApiDealerTurn
    \/ ApiDetermineWinner

SpecApp == InitApp /\ [][NextApp]_vars

----------------------------------------------------------------------------
(* BankrollManager.getBetAmount as a function of its inputs: a manager is  *)
(* built with a base bet and a multiplier cap and asked for bets at one    *)
(* bankroll and successive true counts.  probe keeps the last two calls.   *)

TrueCounts ==
    {R(-3), R(0), Rat(1, 2), R(1), Rat(3, 2), R(2), Rat(5, 2), R(3), Rat(7, 2), R(4),
     R(6)}
Bankrolls == {R(1), R(8), R(100), R(200), R(1000), R(2000)}
BaseBets == {R(1), R(10), R(25)}
MaxMultipliers == {R(3), R(10)}

InitBet ==
    /\ NewSession(Config(1, R(1000), R(10), TRUE, TRUE, R(-1), 40))
    /\ NoCall
    /\ \E b \in Bankrolls, base \in BaseBets, m \in MaxMultipliers :
          probe = [fn |-> "BankrollManager", calls |-> 0, bankroll |-> b, base |-> base,
                   maxBetMultiplier |-> m, trueCount |-> R(0), result |-> R(0),
                   prevTrueCount |-> R(0), prevResult |-> R(0)]

ProbeGetBetAmount ==
    /\ \E tc \in TrueCounts :
          probe' = [probe EXCEPT
                       !.fn = "getBetAmount",
                       !.calls = IF @ < 2 THEN @ + 1 ELSE @,
                       !.trueCount = tc,
                       !.result = GetBetAmount(tc, probe.bankroll, probe.base,
                                               probe.maxBetMultiplier),
                       !.prevTrueCount = probe.trueCount,
                       !.prevResult = probe.result]
    /\ UNCHANGED <<cfgVars, shoeVars, moneyVars, statVars, handVars, pc, handData>>

NextBet == ProbeGetBetAmount

SpecBet == InitBet /\ [][NextBet]_vars

----------------------------------------------------------------------------
(* BasicStrategy.getAction as a function of its inputs: a hand, the        *)
(* dealer's upcard and the two flags.  The hands tried are every two-card  *)
(* hand and the longer hands over LongHandRanks.                           *)

LongHandRanks == {"A", "2", "3", "5", "7", "9", "K"}

HandsProbed ==
    [1..2 -> RankSet] \cup [1..3 -> LongHandRanks] \cup [1..4 -> {"A", "2", "5", "K"}]

InitStrategy ==
    /\ NewSession(Config(1, R(1000), R(10), TRUE, TRUE, R(-1), 40))
    /\ NoCall
    /\ \E hand \in HandsProbed, upcard \in RankSet, canDouble \in BOOLEAN,
          canSplit \in BOOLEAN :
          probe = [fn |-> "BasicStrategy", hand |-> hand, dealerUpcard |-> upcard,
                   canDouble |-> canDouble, canSplit |-> canSplit, result |-> "none"]

ProbeGetAction ==
    /\ probe.fn = "BasicStrategy"
    /\ probe' = [probe EXCEPT
                    !.fn = "getAction",
                    !.result = GetAction(probe.hand, probe.dealerUpcard,
                                         probe.canDouble, probe.canSplit)]
    /\ UNCHANGED <<cfgVars, shoeVars, moneyVars, statVars, handVars, pc, handData>>

NextStrategy == ProbeGetAction

SpecStrategy == InitStrategy /\ [][NextStrategy]_vars

----------------------------------------------------------------------------
(* blackjackapp.py: the statistics of the session, asked for at any point  *)
(* between two requests.  getStats reads the game and changes nothing; its *)
(* answer is held in probe.                                                *)

(* getStats: {} with no game; else profit and roi among the fields.        *)
ApiGetStats ==
    /\ probe = NoProbe
    /\ pc \in {"noGame", "idle"}
    /\ probe' = IF pc = "noGame"
                THEN [fn |-> "getStats", game |-> FALSE, profit |-> R(0), roi |-> R(0)]
                ELSE LET profit == RSub(bankroll, R(1000))
                     IN  [fn |-> "getStats", game |-> TRUE, profit |-> profit,
                          roi |-> IF RLess(R(0), totalWagered)
                                  THEN RMul(RDiv(profit, totalWagered), R(100))
                                  ELSE R(0)]
    /\ UNCHANGED <<cfgVars, shoeVars, moneyVars, statVars, handVars, pc, handData>>

NextStats ==
    \/ ApiGetStats
    \/ probe = NoProbe /\ NextApp

SpecStats == InitApp /\ [][NextStats]_vars

----------------------------------------------------------------------------
(* The methods of Hand as functions of the hand's cards.  The hands tried  *)
(* are the empty hand, the hands of getAction's harness and the hands of   *)
(* up to five cards over {A, 5, K}; each method is called at most once on  *)
(* a hand, in any order; a method's field holds <<>> before the call and   *)
(* <<r>> once it returned r.                                               *)

HandsValued ==
    {<<>>} \cup [1..1 -> RankSet] \cup HandsProbed \cup [1..5 -> {"A", "5", "K"}]

InitHand ==
    /\ NewSession(Config(1, R(1000), R(10), TRUE, TRUE, R(-1), 40))
    /\ NoCall
    /\ \E hand \in HandsValued :
          probe = [fn |-> "Hand", hand |-> hand, getValue |-> <<>>,
                   isSoft |-> <<>>, isBusted |-> <<>>, isBlackjack |-> <<>>]

HandCall(field, result) ==
    /\ probe.fn = "Hand"
    /\ probe[field] = <<>>
    /\ probe' = [probe EXCEPT ![field] = <<result>>]
    /\ UNCHANGED <<cfgVars, shoeVars, moneyVars, statVars, handVars, pc, handData>>

ProbeGetValue == HandCall("getValue", HandGetValue(probe.hand))

ProbeIsSoft == HandCall("isSoft", IsSoft(probe.hand))

ProbeIsBusted == HandCall("isBusted", IsBusted(probe.hand))

ProbeIsBlackjack == HandCall("isBlackjack", IsBlackjack(probe.hand))

NextHand ==
    \/ ProbeGetValue
    \/ ProbeIsSoft
    \/ ProbeIsBusted
    \/ ProbeIsBlackjack

SpecHand == InitHand /\ [][NextHand]_vars

----------------------------------------------------------------------------
(* CardCounter.countCard called on a fresh counter with any cards of the   *)
(* 13 ranks and 4 suits, MaxCounted times at most.                         *)

MaxCounted == 3

InitCount ==
    /\ NewSession(Config(1, R(1000), R(10), TRUE, TRUE, R(-1), 40))
    /\ NoCall
    /\ probe = [fn |-> "CardCounter"]

ProbeCountCard ==
    /\ probe.fn \in {"CardCounter", "countCard"}
    /\ cardsSeen < MaxCounted
    /\ \E rank \in RankSet, suit \in 1..NumSuits :
          /\ runningCount' = CountCard(runningCount, rank)
          /\ cardsSeen' = SeeCard(cardsSeen, rank)
          /\ probe' = [fn |-> "countCard", rank |-> rank, suit |-> suit,
                       returned |-> HiLo(rank)]
    /\ UNCHANGED <<cfgVars, cards, moneyVars, statVars, handVars, pc, handData>>

NextCount == ProbeCountCard

SpecCount == InitCount /\ [][NextCount]_vars

----------------------------------------------------------------------------
(* The player's turn seen from both sides: getAction on every hand of its  *)
(* harness, and the engine, whose loop in playPlayerHand keeps running     *)
(* until it returns.                                                       *)

InitTurn == Init \/ InitStrategy

NextTurn ==
    \/ ProbeGetAction
    \/ probe = NoProbe /\ Next

SpecTurn == InitTurn /\ [][NextTurn]_vars /\ WF_vars(PlayPlayerHand)

----------------------------------------------------------------------------
(* The shoe and the counter under playHand, with the shoe Deck.reset       *)
(* really builds: every rank of RANKS in every suit.  A call rebuilds the  *)
(* shoe and resets the counter when the shoe is below the reshuffle point, *)
(* and then draws and counts some cards; a call draws MaxCallDraws cards   *)
(* at most here, and MaxShoeCalls calls are followed.  The sessions start  *)
(* on a fresh shoe or after earlier calls that drew the 20 high or the 20  *)
(* low cards of the shoe; probe.drawn holds the cards drawn since the last *)
(* rebuild.                                                                *)

MaxCallDraws == 2
MaxShoeCalls == 2

FullDeckShortOfTens(decks) ==
    [r \in RankSet |-> IF r = "10" THEN decks * (NumSuits - 1) ELSE decks * NumSuits]

FullDeck(decks) == [r \in RankSet |-> decks * NumSuits]

FullRemaining(deck) == BagSize(deck, RankSet)

FullDealSeqs(deck, k) ==
    {s \in UNION {[1..j -> RankSet] : j \in 0..k} :
        \A r \in RankSet : Occurrences(s, r) <= deck[r]}

FullDealAll(deck, s) == [r \in RankSet |-> deck[r] - Occurrences(s, r)]

HighOut == [i \in 1..20 |-> <<"10", "J", "Q", "K", "A">>[((i - 1) % 5) + 1]]
LowOut == [i \in 1..20 |-> <<"2", "3", "4", "5", "6">>[((i - 1) % 5) + 1]]

ShoeStarts == {<<0, <<>> >>, <<51, <<>> >>, <<0, HighOut>>, <<0, LowOut>>}

InitShoe ==
    /\ numDecks = 1
    /\ bankroll = R(1000) /\ startingBankroll = R(1000)
    /\ maxBankroll = R(1000) /\ minBankroll = R(1000)
    /\ baseBet = R(10)
    /\ useCardCounting = TRUE /\ useWonging = FALSE /\ wongingThreshold = R(-1)
    /\ handsPlayed = 0 /\ handsWon = 0 /\ handsLost = 0 /\ handsPushed = 0
    /\ handsSatOut = 0 /\ totalWagered = R(0)
    /\ NoCall
    /\ \E start \in ShoeStarts :
          /\ reshufflePoint = start[1]
          /\ penetration = IF start[1] = 0 THEN 99 ELSE 1
          /\ cards = FullDealAll(FullDeck(numDecks), start[2])
          /\ runningCount = CountCards(0, start[2])
          /\ cardsSeen = SeeCards(0, start[2])
          /\ probe = [fn |-> "Deck", calls |-> 0,
                      drawn |-> [r \in RankSet |-> Occurrences(start[2], r)]]

ShoePlayHand ==
    /\ probe.fn = "Deck"
    /\ probe.calls < MaxShoeCalls
    /\ LET reshuffle == FullRemaining(cards) < reshufflePoint
           deck == IF reshuffle THEN FullDeck(numDecks) ELSE cards
           count == IF reshuffle THEN 0 ELSE runningCount
           seen == IF reshuffle THEN 0 ELSE cardsSeen
           before == IF reshuffle THEN [r \in RankSet |-> 0] ELSE probe.drawn
       IN  \E s \in FullDealSeqs(deck, MaxCallDraws) :
              /\ cards' = FullDealAll(deck, s)
              /\ runningCount' = CountCards(count, s)
              /\ cardsSeen' = SeeCards(seen, s)
              /\ probe' = [fn |-> "Deck", calls |-> probe.calls + 1,
                           drawn |-> [r \in RankSet |->
                                         before[r] + Occurrences(s, r)]]
    /\ UNCHANGED <<cfgVars, moneyVars, statVars, handVars, pc, handData>>

NextShoe == ShoePlayHand

SpecShoe == InitShoe /\ [][NextShoe]_vars

----------------------------------------------------------------------------
(* Properties of the engine, checked under Spec.                           *)

(* C1: when the bet computed for a hand exceeds the bankroll, the call     *)
(* returns without drawing a card and without changing any state: shoe,    *)
(* running count, cards seen, bankroll, its minimum and maximum, the hand  *)
(* counters and totalWagered are the same before and after.                *)
C1_BrokeChangesNothing ==
    [][(pc = "idle" /\ handData'.result = "outOfMoney")
          => UNCHANGED <<shoeVars, moneyVars, statVars>>]_vars

(* A call that found the bankroll short after it had rebuilt the shoe.     *)
C1_BrokeAfterReshuffle ==
    /\ handData.result = "outOfMoney"
    /\ handData.reshuffle
    /\ RLess(handData.bankrollBefore, handData.bet)

(* C2: with penetration strictly between 0 and 1, no sequence of playHand  *)
(* calls ever calls dealCard on an empty shoe.                             *)
C2_NeverDealsFromEmptyShoe ==
    penetration \in 1..99 => handData.result # "IndexError"

(* The Hi-Lo deltas of the cards missing from a shoe of the given size.    *)
RECURSIVE RemovedHiLo(_, _, _)
RemovedHiLo(deck, full, ranks) ==
    IF ranks = {} THEN 0
    ELSE LET r == CHOOSE x \in ranks : TRUE
         IN  (IF r \in {"2", "3", "4", "5", "6"} THEN 1
              ELSE IF r \in {"10", "J", "Q", "K", "A"} THEN -1
              ELSE 0) * (full[r] - deck[r])
             + RemovedHiLo(deck, full, ranks \ {r})

(* C3: after any sequence of playHand calls, every card removed from the   *)
(* shoe since its last rebuild has been counted exactly once: cardsSeen is *)
(* the number of cards missing from the shoe and runningCount is the sum   *)
(* of their Hi-Lo deltas.                                                  *)
C3_EveryCardCountedOnce ==
    /\ cardsSeen = numDecks * CardsPerDeck - CardsRemaining(cards)
    /\ runningCount = RemovedHiLo(cards, [r \in ShoeRanks |-> numDecks * NumSuits],
                                  ShoeRanks)

(* A sat-out round that burned four cards on a shoe already eight short.   *)
C3_SatOutCounted ==
    /\ handData.result = "satOut"
    /\ handData.drawn = 4
    /\ ~handData.reshuffle
    /\ cardsSeen = 8
    /\ runningCount # 0

(* The shoe is rebuilt by the step: what it holds afterwards is a full     *)
(* shoe less the cards the step drew.                                      *)
RebuiltInStep ==
    /\ handData'.reshuffle
    /\ CardsRemaining(cards') = numDecks * CardsPerDeck - handData'.drawn

(* The shoe is not rebuilt by the step.                                    *)
KeptInStep(drawn) ==
    /\ CardsRemaining(cards') = CardsRemaining(cards) - drawn
    /\ \A r \in ShoeRanks : cards'[r] <= cards[r]

(* C5 as stated: at the start of a playHand call, with penetration         *)
(* strictly between 0 and 1, the shoe is rebuilt if and only if fewer than *)
(* numDecks * 52 * (1 - penetration) cards remain.                         *)
C5_RebuildBelowExactThreshold ==
    [][(pc = "idle" /\ penetration \in 1..99)
          => IF CardsRemaining(cards) * 100 < numDecks * CardsPerDeck * (100 - penetration)
             THEN RebuiltInStep
             ELSE ~handData'.reshuffle /\ KeptInStep(handData'.drawn)]_vars

(* C5 amended: at the start of a playHand call, with penetration strictly  *)
(* between 0 and 1, the shoe is rebuilt if and only if fewer cards remain  *)
(* than numDecks * 52 * (1 - penetration) truncated to an integer; at no   *)
(* other step of a hand is the shoe rebuilt.                               *)
C5_RebuildBelowTruncatedThreshold ==
    [][/\ (pc = "idle" /\ penetration \in 1..99)
          => IF CardsRemaining(cards)
                  < (numDecks * CardsPerDeck * (100 - penetration)) \div 100
             THEN RebuiltInStep
             ELSE ~handData'.reshuffle /\ KeptInStep(handData'.drawn)
       /\ pc # "idle"
          => handData'.reshuffle = handData.reshuffle
             /\ KeptInStep(handData'.drawn - handData.drawn)]_vars

(* A call that rebuilt a shoe whose penetration lies between 0 and 1 and   *)
(* dealt a hand from it.                                                   *)
C5_RebuiltAndDealt ==
    /\ penetration \in 1..99
    /\ handData.reshuffle
    /\ handData.drawn >= 4
    /\ cardsSeen = handData.drawn

(* C8: no session exists whose penetration is outside (0,1) or whose       *)
(* startingBankroll or baseBet is not positive: creation rejects such a    *)
(* configuration and builds no shoe, counter, bankroll or aggregates.      *)
C8_InvalidConfigurationRejected ==
    /\ penetration \in 1..99
    /\ RLess(R(0), startingBankroll)
    /\ RLess(R(0), baseBet)

(* A two-card 21: an ace with a ten-valued card.                           *)
TwoCard21(hand) ==
    /\ Len(hand) = 2
    /\ \E i \in 1..2 : hand[i] = "A" /\ hand[3 - i] \in {"10", "J", "Q", "K"}

(* C9: after the initial deal, two-card 21s on both sides are a push with  *)
(* the bankroll unchanged; on the player's side only, the bankroll grows   *)
(* by exactly 1.5 times the bet and handsWon by 1; on the dealer's side    *)
(* only, the bankroll falls by exactly the bet and handsLost grows by 1;   *)
(* in all three cases the hand ends before the player's turn with exactly  *)
(* four cards drawn, and in no other case does it end there.               *)
C9_BlackjackSettlement ==
    [][(pc = "idle" /\ Len(handData'.dealerHand) = 2)
          => LET player == handData'.playerHand
                 dealer == handData'.dealerHand
                 bet == handData'.bet
                 before == IF handData'.reshuffle THEN numDecks * CardsPerDeck
                           ELSE CardsRemaining(cards)
             IN  /\ (TwoCard21(player) /\ TwoCard21(dealer))
                    => /\ bankroll' = bankroll
                       /\ handsPushed' = handsPushed + 1
                       /\ handsWon' = handsWon /\ handsLost' = handsLost
                 /\ (TwoCard21(player) /\ ~TwoCard21(dealer))
                    => /\ bankroll' = RAdd(bankroll, RMul(bet, Rat(3, 2)))
                       /\ handsWon' = handsWon + 1
                       /\ handsPushed' = handsPushed /\ handsLost' = handsLost
                 /\ (~TwoCard21(player) /\ TwoCard21(dealer))
                    => /\ bankroll' = RSub(bankroll, bet)
                       /\ handsLost' = handsLost + 1
                       /\ handsPushed' = handsPushed /\ handsWon' = handsWon
                 /\ (TwoCard21(player) \/ TwoCard21(dealer))
                    => /\ pc' = "idle"
                       /\ handsPlayed' = handsPlayed + 1
                       /\ CardsRemaining(cards') = before - 4
                 /\ (~TwoCard21(player) /\ ~TwoCard21(dealer))
                    => /\ pc' = "player"
                       /\ bankroll' = bankroll
                       /\ handsPlayed' = handsPlayed]_vars

(* The player alone held a two-card 21 and was paid for it.                *)
C9_PlayerBlackjackPaid ==
    /\ pc = "idle"
    /\ TwoCard21(handData.playerHand)
    /\ ~TwoCard21(handData.dealerHand)
    /\ handData.drawn = 4
    /\ RLess(R(0), handData.bet)
    /\ bankroll = RAdd(handData.bankrollBefore, RMul(handData.bet, Rat(3, 2)))
    /\ handsWon >= 1

(* C10: in every hand that reaches the dealer's turn, the dealer draws a   *)
(* card if and only if the dealer's hand is worth less than 17, and the    *)
(* turn ends with the dealer's hand worth at least 17.                     *)
C10_DealerDrawsBelow17 ==
    [][pc = "dealer"
          => /\ (HandGetValue(dealerHand) < 17
                   <=> (pc' = "dealer" /\ Len(dealerHand') = Len(dealerHand) + 1))
             /\ (pc' = "idle" => HandGetValue(dealerHand) >= 17)]_vars

(* The dealer drew to 17 or more and the hand was settled.                 *)
C10_DealerDrewAndStood ==
    /\ pc = "dealer"
    /\ Len(dealerHand) >= 3
    /\ HandGetValue(dealerHand) >= 17

----------------------------------------------------------------------------
(* Properties of getBetAmount, checked under SpecBet.                      *)

(* The caps of the contract: baseBet * maxMultiplier, 5% of the bankroll   *)
(* and the bankroll itself.                                                *)
BetCeiling(b, base, m) == RMin(RMin(RMul(base, m), RMul(b, Rat(1, 20))), b)

StepOf(tc) ==
    IF RLess(tc, R(1)) THEN R(1)
    ELSE IF RLess(tc, R(2)) THEN R(2)
    ELSE IF RLess(tc, R(3)) THEN R(4)
    ELSE IF RLess(tc, R(4)) THEN R(6)
    ELSE R(8)

(* C7: for fixed bankroll, baseBet and maxMultiplier the bet does not      *)
(* decrease as the true count grows, and where no cap binds it is baseBet  *)
(* times 1 below a true count of 1, 2 on [1,2), 4 on [2,3), 6 on [3,4)     *)
(* and 8 from 4 up.                                                        *)
C7_BetMonotoneInTrueCount ==
    /\ (probe.calls = 2 /\ RLeq(probe.prevTrueCount, probe.trueCount))
          => RLeq(probe.prevResult, probe.result)
    /\ (probe.calls = 2 /\ RLeq(probe.trueCount, probe.prevTrueCount))
          => RLeq(probe.result, probe.prevResult)
    /\ (/\ probe.calls >= 1
        /\ RLeq(R(8), probe.maxBetMultiplier)
        /\ RLeq(RMul(probe.base, R(8)), RMul(probe.bankroll, Rat(1, 20))))
          => probe.result = RMul(probe.base, StepOf(probe.trueCount))

(* Two calls at one bankroll where the higher count got the higher bet.    *)
C7_HigherCountHigherBet ==
    /\ probe.calls = 2
    /\ RLess(probe.prevTrueCount, probe.trueCount)
    /\ RLess(probe.prevResult, probe.result)
    /\ probe.prevResult = RMul(probe.base, R(4))
    /\ probe.result = RMul(probe.base, R(6))

----------------------------------------------------------------------------
(* Properties of the web handler, checked under SpecApp.                   *)

(* The hand records the handler returns and appends to the history.        *)
Recorded ==
    /\ pc = "idle"
    /\ handData.result \in {"satOut", "push", "playerBlackjack", "dealerBlackjack",
                            "playerBust", "playerWin", "dealerWin"}

(* C4: a call that rebuilds the shoe resets the counter in the same step,  *)
(* so no hand record that reports a reshuffle reports a nonzero running    *)
(* count or a nonzero true count.                                          *)
C4_ReshuffleReportsZeroCount ==
    (Recorded /\ handData.reshuffle)
       => handData.runningCount = 0 /\ handData.trueCount = R(0)

(* A record of a hand played on a rebuilt shoe.                            *)
C4_ReshuffleRecorded ==
    /\ Recorded
    /\ handData.reshuffle
    /\ cardsSeen = handData.drawn

----------------------------------------------------------------------------
(* Properties of the engine's player turn, dealer turn and settlement,     *)
(* checked under Spec.                                                     *)

(* The bet the running call computed on entry, from what it recorded.      *)
BetOfRecord ==
    IF useCardCounting
    THEN LET m == IF RLess(handData.trueCount, R(1)) THEN 1
                  ELSE IF RLess(handData.trueCount, R(2)) THEN 2
                  ELSE IF RLess(handData.trueCount, R(3)) THEN 4
                  ELSE IF RLess(handData.trueCount, R(4)) THEN 6
                  ELSE 8
             capped == RMin(RMin(RMul(baseBet, R(m)),
                                 RMul(handData.bankrollBefore, Rat(1, 20))),
                            handData.bankrollBefore)
         IN  RMax(baseBet, capped)
    ELSE baseBet

(* The hand's wager: the bet, doubled when the hand was doubled.           *)
WagerOfHand == IF isDoubled THEN RMul(BetOfRecord, R(2)) ELSE BetOfRecord

(* The value of a hand: aces 11, faces 10, and 10 taken off per ace while  *)
(* the total is above 21.                                                  *)
ValueOf(hand) ==
    LET raw == SumValues(hand)
        aces == Cardinality({i \in 1..Len(hand) : hand[i] = "A"})
        k == CHOOSE n \in 0..aces :
                 /\ (raw - 10 * n <= 21 \/ n = aces)
                 /\ \A j \in 0..(n - 1) : raw - 10 * j > 21
    IN  raw - 10 * k

(* The step settles the hand against the dealer's final hand.              *)
SettlesInStep == pc = "dealer" /\ pc' = "idle" /\ handData'.result # "IndexError"

(* C11: at settlement, a dealer bust or a higher player value adds the     *)
(* hand's wager to the bankroll and 1 to handsWon; a lower player value    *)
(* takes the wager off the bankroll and adds 1 to handsLost; equal values  *)
(* leave the bankroll alone and add 1 to handsPushed.  The wager is the    *)
(* doubled bet when the hand was doubled.                                  *)
C11_SettlementByValues ==
    [][SettlesInStep
          => LET p == ValueOf(playerHand)
                 d == ValueOf(dealerHand)
             IN  /\ p <= 21
                 /\ (d > 21 \/ p > d)
                    => /\ bankroll' = RAdd(bankroll, WagerOfHand)
                       /\ handsWon' = handsWon + 1
                       /\ handsLost' = handsLost /\ handsPushed' = handsPushed
                 /\ (d <= 21 /\ p < d)
                    => /\ bankroll' = RSub(bankroll, WagerOfHand)
                       /\ handsLost' = handsLost + 1
                       /\ handsWon' = handsWon /\ handsPushed' = handsPushed
                 /\ (d <= 21 /\ p = d)
                    => /\ bankroll' = bankroll
                       /\ handsPushed' = handsPushed + 1
                       /\ handsWon' = handsWon /\ handsLost' = handsLost]_vars

(* A doubled hand that won twice its bet at settlement.                    *)
C11_DoubledHandWon ==
    /\ pc = "idle"
    /\ handData.result = "playerWin"
    /\ RLess(R(0), BetOfRecord)
    /\ handData.bet = RMul(BetOfRecord, R(2))
    /\ bankroll = RAdd(handData.bankrollBefore, RMul(BetOfRecord, R(2)))

(* The card the step took from the shoe, if it took exactly one.           *)
DrawnInStep ==
    {r \in ShoeRanks : cards' = [cards EXCEPT ![r] = @ - 1]}

(* C12: when a card drawn on Hit or Double takes the player's hand above   *)
(* 21, the hand ends in that step: the bankroll falls by exactly the       *)
(* current wager (the doubled wager after a Double), handsLost and         *)
(* handsPlayed each grow by 1 and the dealer has drawn no card.            *)
C12_BustEndsHand ==
    [][pc = "player"
          => \A r \in DrawnInStep :
                LET doubling == PlayerAction = DOUBLE /\ CanDouble
                    wager == IF doubling THEN RMul(BetOfRecord, R(2)) ELSE BetOfRecord
                IN  IF ValueOf(Append(playerHand, r)) > 21
                    THEN /\ pc' = "idle"
                         /\ bankroll' = RSub(bankroll, wager)
                         /\ handsLost' = handsLost + 1
                         /\ handsPlayed' = handsPlayed + 1
                         /\ handsWon' = handsWon /\ handsPushed' = handsPushed
                         /\ Len(dealerHand) = 2
                         /\ handData'.drawn = 2 + Len(playerHand) + 1
                    ELSE /\ pc' # "idle"
                         /\ bankroll' = bankroll
                         /\ handsLost' = handsLost
                         /\ handsPlayed' = handsPlayed]_vars

(* A hand the player busted on a hit, lost at the bet.                     *)
C12_PlayerBusted ==
    /\ pc = "idle"
    /\ handData.result = "playerBust"
    /\ handData.drawn >= 5
    /\ RLess(R(0), BetOfRecord)
    /\ bankroll = RSub(handData.bankrollBefore, BetOfRecord)
    /\ handsLost >= 1

(* C13: a Double is carried out only when the hand has exactly 2 cards and *)
(* the bankroll covers the current wager; it doubles the wager, draws      *)
(* exactly one card and ends the player's turn, so a hand is doubled at    *)
(* most once, only as the first player action, and its wager is the bet or *)
(* exactly twice the bet.                                                  *)
C13_DoubleOnceOneCard ==
    [][pc = "player"
          => /\ (PlayerAction = DOUBLE /\ CanDouble)
                => /\ Len(playerHand) = 2
                   /\ RLeq(BetOfRecord, bankroll)
                   /\ ~isDoubled
                   /\ DrawnInStep # {}
                   /\ pc' # "player"
                   /\ handData'.bet = RMul(BetOfRecord, R(2))
                   /\ pc' = "dealer" => isDoubled' /\ betAmount' = RMul(BetOfRecord, R(2))
             /\ ~(PlayerAction = DOUBLE /\ CanDouble)
                => /\ handData'.bet = handData.bet
                   /\ pc' # "idle" => isDoubled' = isDoubled /\ betAmount' = betAmount
             /\ betAmount = WagerOfHand
             /\ isDoubled => Len(playerHand) = 3]_vars

(* A doubled hand: three cards, twice the bet, the player's turn over.     *)
C13_DoubledHand ==
    /\ pc = "dealer"
    /\ isDoubled
    /\ Len(playerHand) = 3
    /\ RLess(R(0), BetOfRecord)
    /\ betAmount = RMul(BetOfRecord, R(2))

(* The shoe a call plays from, after its reshuffle check: how many cards   *)
(* it holds, and the running count and cards seen that go with it.         *)
RebuildsAtEntry == CardsRemaining(cards) < reshufflePoint
RemainingAtEntry == IF RebuildsAtEntry THEN numDecks * CardsPerDeck ELSE CardsRemaining(cards)
CountAtEntry == IF RebuildsAtEntry THEN 0 ELSE runningCount
SeenAtEntry == IF RebuildsAtEntry THEN 0 ELSE cardsSeen

(* The true count at the start of the hand is below wongingThreshold.      *)
BelowThresholdAtEntry ==
    /\ RemainingAtEntry > 0
    /\ RLess(Rat(CountAtEntry * CardsPerDeck, RemainingAtEntry), wongingThreshold)

(* The step sits the round out, burning k cards.                           *)
SitsOutInStep(k) ==
    /\ handsSatOut' = handsSatOut + 1
    /\ CardsRemaining(cards') = RemainingAtEntry - k
    /\ cardsSeen' = SeenAtEntry + k
    /\ handData'.drawn = k
    /\ pc' = "idle"
    /\ playerHand' = <<>> /\ dealerHand' = <<>>
    /\ handData'.playerHand = <<>> /\ handData'.dealerHand = <<>>
    /\ UNCHANGED <<moneyVars, handsPlayed, handsWon, handsLost, handsPushed, totalWagered>>

(* C14 as stated: with wonging enabled and the true count at the start of  *)
(* the hand below wongingThreshold, the call sits out: handsSatOut grows   *)
(* by 1, exactly 4 cards are drawn and counted, bankroll, its minimum and  *)
(* maximum, the hand counters and totalWagered are unchanged and no hand   *)
(* is produced; with wonging disabled handsSatOut never changes.           *)
C14_SitOutBurnsFour ==
    [][/\ (pc = "idle" /\ useWonging /\ BelowThresholdAtEntry) => SitsOutInStep(4)
       /\ ~(pc = "idle" /\ useWonging /\ BelowThresholdAtEntry)
             => handsSatOut' = handsSatOut]_vars

(* What the code does on the sat-out path: as C14 states, except that the  *)
(* cards drawn and counted are 4 or, when the shoe holds fewer than 4, all *)
(* the cards it holds.                                                     *)
C14_SitOutBurnsUpToFour ==
    [][/\ (pc = "idle" /\ useWonging /\ BelowThresholdAtEntry)
             => SitsOutInStep(IF RemainingAtEntry < 4 THEN RemainingAtEntry ELSE 4)
       /\ ~(pc = "idle" /\ useWonging /\ BelowThresholdAtEntry)
             => handsSatOut' = handsSatOut]_vars

(* A round sat out on a shoe of fewer than 4 cards, with penetration       *)
(* between 0 and 1.                                                        *)
C14_SatOutOnShortShoe ==
    /\ penetration \in 1..99
    /\ handData.result = "satOut"
    /\ handData.drawn \in 1..3
    /\ handsSatOut >= 1
    /\ CardsRemaining(cards) = 0

(* The results of a call that resolved a hand.                             *)
ResolvedResults ==
    {"push", "playerBlackjack", "dealerBlackjack", "playerBust", "playerWin", "dealerWin"}

(* C15: a call that resolves a hand adds exactly 1 to handsPlayed and      *)
(* exactly 1 to exactly one of handsWon, handsLost and handsPushed; no     *)
(* other step changes any of them; so handsPlayed = handsWon + handsLost + *)
(* handsPushed after every call.                                           *)
C15_OneCounterPerResolvedHand ==
    [][/\ IF pc' = "idle" /\ handData'.result \in ResolvedResults
          THEN /\ handsPlayed' = handsPlayed + 1
               /\ <<handsWon', handsLost', handsPushed'>>
                     \in {<<handsWon + 1, handsLost, handsPushed>>,
                          <<handsWon, handsLost + 1, handsPushed>>,
                          <<handsWon, handsLost, handsPushed + 1>>}
          ELSE UNCHANGED <<handsPlayed, handsWon, handsLost, handsPushed>>
       /\ handsPlayed' = handsWon' + handsLost' + handsPushed']_vars

(* Two resolved hands, one won and one lost.                               *)
C15_TwoHandsResolved ==
    /\ pc = "idle"
    /\ handsPlayed = 2
    /\ handsWon = 1
    /\ handsLost = 1
    /\ handsPushed = 0

(* C16: every resolved hand adds exactly its wager at settlement to        *)
(* totalWagered, the bet or twice the bet when the hand was doubled, so    *)
(* totalWagered is the sum of the final wagers of the resolved hands; here *)
(* for the first resolved hand of a session: after it totalWagered is its  *)
(* final wager.                                                            *)
C16_TotalWageredIsFinalWager ==
    (pc = "idle" /\ handsPlayed = 1 /\ handData.result \in ResolvedResults)
       => totalWagered = handData.bet

(* A doubled hand, won at twice the bet, with only the bet in totalWagered. *)
C16_DoubledHandWageredOnce ==
    /\ pc = "idle"
    /\ handsPlayed = 1
    /\ handData.result = "playerWin"
    /\ RLess(R(0), BetOfRecord)
    /\ handData.profit = RMul(BetOfRecord, R(2))
    /\ totalWagered = BetOfRecord

----------------------------------------------------------------------------
(* Properties of getAction, checked under SpecStrategy.                    *)

(* The value of a card: 11 for an ace, 10 for a face card, else its number. *)
ValueOfCard(r) ==
    CASE r = "A" -> 11
      [] r \in {"10", "J", "Q", "K"} -> 10
      [] r = "2" -> 2 [] r = "3" -> 3 [] r = "4" -> 4 [] r = "5" -> 5
      [] r = "6" -> 6 [] r = "7" -> 7 [] r = "8" -> 8 [] r = "9" -> 9

(* A hand is soft: an ace is still counted as 11 and the value is at most  *)
(* 21.                                                                     *)
SoftAsStated(hand) ==
    LET aces == Cardinality({i \in 1..Len(hand) : hand[i] = "A"})
        reduced == (SumValues(hand) - ValueOf(hand)) \div 10
    IN  reduced < aces /\ ValueOf(hand) <= 21

(* A two-card hand of equal card values.                                   *)
PairAsStated(hand) == Len(hand) = 2 /\ ValueOfCard(hand[1]) = ValueOfCard(hand[2])

(* The hard-hand table.                                                    *)
HardTable(total, d, canDouble) ==
    IF total >= 17 THEN "Stand"
    ELSE IF total \in 13..16 THEN (IF d \in 2..6 THEN "Stand" ELSE "Hit")
    ELSE IF total = 12 THEN (IF d \in 4..6 THEN "Stand" ELSE "Hit")
    ELSE IF total = 11 THEN (IF canDouble THEN "Double Down" ELSE "Hit")
    ELSE IF total = 10 THEN (IF canDouble /\ d <= 9 THEN "Double Down" ELSE "Hit")
    ELSE IF total = 9 THEN (IF canDouble /\ d \in 3..6 THEN "Double Down" ELSE "Hit")
    ELSE "Hit"

(* The soft-hand table.                                                    *)
SoftTable(total, d, canDouble) ==
    IF total >= 19 THEN "Stand"
    ELSE IF total = 18
         THEN (IF canDouble /\ d \in {3, 4, 5, 6} THEN "Double Down"
               ELSE IF d \in {2, 7, 8} THEN "Stand"
               ELSE "Hit")
    ELSE IF total = 17 THEN (IF canDouble /\ d \in {3, 4, 5, 6} THEN "Double Down" ELSE "Hit")
    ELSE IF total \in {15, 16}
         THEN (IF canDouble /\ d \in {4, 5, 6} THEN "Double Down" ELSE "Hit")
    ELSE IF total \in {13, 14}
         THEN (IF canDouble /\ d \in {5, 6} THEN "Double Down" ELSE "Hit")
    ELSE "Hit"

(* The pairs the pair rule splits, by card value v and dealer value d.     *)
SplitAsStated(v, d) ==
    \/ v \in {11, 8}
    \/ v \in {2, 3, 7} /\ d \in 2..7
    \/ v = 4 /\ d \in 5..6
    \/ v = 6 /\ d \in 2..6
    \/ v = 9 /\ (d \in 2..6 \/ d \in 8..9)

Probed == probe.fn = "getAction"

(* C17: for a two-card hand of equal card values v, a dealer upcard of     *)
(* value d, canSplit and canDouble true, getAction returns Split exactly   *)
(* for v 11 or 8, v in {2,3,7} against 2-7, v 4 against 5-6, v 6 against   *)
(* 2-6 and v 9 against 2-6 or 8-9; otherwise it returns the hard-hand      *)
(* table's action for the pair's total.                                    *)
C17_PairRule ==
    (Probed /\ PairAsStated(probe.hand) /\ probe.canSplit /\ probe.canDouble)
       => LET v == ValueOfCard(probe.hand[1])
              d == ValueOfCard(probe.dealerUpcard)
          IN  /\ probe.result = "Split" <=> SplitAsStated(v, d)
              /\ ~SplitAsStated(v, d)
                 => probe.result = HardTable(ValueOf(probe.hand), d, TRUE)
              /\ v \in {5, 10} => probe.result # "Split"

(* A pair of 5s against a 6 is doubled, not split.                         *)
C17_FivesDoubled ==
    /\ Probed
    /\ probe.hand = <<"5", "5">>
    /\ probe.dealerUpcard = "6"
    /\ probe.canSplit /\ probe.canDouble
    /\ probe.result = "Double Down"

(* C18: for a two-card soft hand that the pair rule does not resolve       *)
(* (canSplit false or the hand no pair), getAction returns the soft-hand   *)
(* table's action on the hand's total for every dealer upcard.             *)
C18_SoftRule ==
    (/\ Probed
     /\ Len(probe.hand) = 2
     /\ SoftAsStated(probe.hand)
     /\ ~(probe.canSplit /\ PairAsStated(probe.hand)))
       => probe.result = SoftTable(ValueOf(probe.hand),
                                   ValueOfCard(probe.dealerUpcard), probe.canDouble)

(* A soft 18 against a 9 is hit.                                           *)
C18_SoftEighteenHit ==
    /\ Probed
    /\ probe.hand = <<"A", "7">>
    /\ probe.dealerUpcard = "9"
    /\ probe.result = "Hit"

(* C19: for a hand resolved neither by the pair rule nor by the two-card   *)
(* soft rule, hands of three or more cards included, getAction returns the *)
(* hard-hand table's action on the hand's total.                           *)
C19_HardRule ==
    (/\ Probed
     /\ ~(probe.canSplit /\ PairAsStated(probe.hand))
     /\ ~(Len(probe.hand) = 2 /\ SoftAsStated(probe.hand)))
       => probe.result = HardTable(ValueOf(probe.hand),
                                   ValueOfCard(probe.dealerUpcard), probe.canDouble)

(* A three-card soft hand played by the hard table: A,2,5 is 18 and        *)
(* stands against a 9, where a two-card soft 18 hits.                      *)
C19_ThreeCardSoftStands ==
    /\ Probed
    /\ probe.hand = <<"A", "2", "5">>
    /\ probe.dealerUpcard = "9"
    /\ probe.result = "Stand"

(* C20: with canDouble false getAction never returns Double, for every     *)
(* hand, every dealer upcard and both values of canSplit.                  *)
C20_NoDoubleWhenDisallowed ==
    (Probed /\ ~probe.canDouble) => probe.result # "Double Down"

(* A pair of 5s against a 6 with canSplit true and canDouble false.        *)
C20_PairAskedWithoutDouble ==
    /\ Probed
    /\ probe.hand = <<"5", "5">>
    /\ probe.dealerUpcard = "6"
    /\ probe.canSplit /\ ~probe.canDouble

----------------------------------------------------------------------------
(* Properties of Hand, checked under SpecHand.                             *)

(* The totals a hand can be given: each ace counted as 11 or as 1.         *)
TotalsOf(hand) ==
    LET aces == Cardinality({i \in 1..Len(hand) : hand[i] = "A"})
    IN  {SumValues(hand) - 10 * j : j \in 0..aces}

(* C21: for every hand, isSoft is true if and only if at least one ace is  *)
(* still counted as 11 in the hand's value and that value is at most 21.   *)
C21_SoftIffAceAtEleven ==
    (probe.fn = "Hand" /\ probe.isSoft # <<>>)
       => (probe.isSoft[1] <=> SoftAsStated(probe.hand))

(* isSoft was called on a pair of aces.                                    *)
C21_PairOfAcesAsked ==
    /\ probe.fn = "Hand"
    /\ probe.hand = <<"A", "A">>
    /\ probe.isSoft # <<>>

(* C22: for every hand, getValue is the raw sum of the card values reduced *)
(* by 10 once per ace while the total exceeds 21 and an unreduced ace      *)
(* remains; it is at most the raw sum; it is the largest total of at most  *)
(* 21 obtainable by counting aces as 1 or 11 when there is one; isBusted   *)
(* holds iff the value exceeds 21; isBlackjack holds iff the hand has      *)
(* exactly two cards and value 21.                                         *)
C22_ValueBustBlackjack ==
    probe.fn = "Hand"
       => LET hand == probe.hand
              fits == {v \in TotalsOf(hand) : v <= 21}
          IN  /\ probe.getValue # <<>>
                 => /\ probe.getValue[1] = ValueOf(hand)
                    /\ probe.getValue[1] <= SumValues(hand)
                    /\ fits # {}
                       => /\ probe.getValue[1] \in fits
                          /\ \A v \in fits : v <= probe.getValue[1]
                    /\ fits = {} => probe.getValue[1] > 21
              /\ probe.isBusted # <<>>
                 => (probe.isBusted[1] <=> ValueOf(hand) > 21)
              /\ probe.isBlackjack # <<>>
                 => (probe.isBlackjack[1] <=> (Len(hand) = 2 /\ ValueOf(hand) = 21))

(* A hand with two aces reduced and none left at 11: A,A,K,K is 22 and     *)
(* busted, and no blackjack.                                               *)
C22_TwoAcesReducedBusted ==
    /\ probe.fn = "Hand"
    /\ probe.hand = <<"A", "A", "K", "K">>
    /\ probe.getValue = <<22>>
    /\ probe.isBusted = <<TRUE>>
    /\ probe.isBlackjack = <<FALSE>>

----------------------------------------------------------------------------
(* Properties of countCard, checked under SpecCount.                       *)

(* The Hi-Lo delta of a rank.                                              *)
DeltaAsStated(rank) ==
    CASE rank \in {"10", "J", "Q", "K", "A"} -> -1
      [] rank \in {"7", "8", "9"} -> 0
      [] rank \in {"2", "3", "4", "5", "6"} -> 1

(* C23: countCard adds the Hi-Lo delta of the card's rank to the running   *)
(* count and returns it (-1 for 10, J, Q, K, A; 0 for 7, 8, 9; +1 for 2 to *)
(* 6), and adds exactly 1 to cardsSeen, whatever the suit.                 *)
C23_CountCardDelta ==
    [][probe'.fn = "countCard"
          => /\ runningCount' = runningCount + DeltaAsStated(probe'.rank)
             /\ probe'.returned = DeltaAsStated(probe'.rank)
             /\ cardsSeen' = cardsSeen + 1]_vars

(* A low, a neutral and a high card were counted in turn.                  *)
C23_ThreeCardsCounted ==
    /\ probe.fn = "countCard"
    /\ probe.rank = "10"
    /\ cardsSeen = 3
    /\ runningCount = 0

----------------------------------------------------------------------------
(* Properties of the bankroll over a session, checked under Spec.          *)

(* The step ends a playHand call.                                          *)
CallEndsInStep == pc' = "idle"

(* C24: after every playHand call minBankroll <= bankroll <= maxBankroll   *)
(* and minBankroll <= startingBankroll <= maxBankroll, and minBankroll and *)
(* maxBankroll are the smallest and the largest bankroll held at session   *)
(* start or at the end of any hand so far: both start at the starting      *)
(* bankroll, and each call leaves them at the smaller and the larger of    *)
(* their value and the bankroll the call ends with.                        *)
C24_BankrollExtremes ==
    /\ minBankroll = bankroll /\ maxBankroll = bankroll /\ startingBankroll = bankroll
    /\ [](pc = "idle"
             => /\ RLeq(minBankroll, bankroll) /\ RLeq(bankroll, maxBankroll)
                /\ RLeq(minBankroll, startingBankroll)
                /\ RLeq(startingBankroll, maxBankroll))
    /\ [][/\ CallEndsInStep
             => /\ minBankroll' = RMin(minBankroll, bankroll')
                /\ maxBankroll' = RMax(maxBankroll, bankroll')
          /\ ~CallEndsInStep
             => /\ minBankroll' = minBankroll
                /\ maxBankroll' = maxBankroll
                /\ bankroll' = bankroll]_vars

(* Two hands played, the bankroll having been above and below its start.   *)
C24_BankrollWentBothWays ==
    /\ pc = "idle"
    /\ handsPlayed = 2
    /\ RLess(minBankroll, startingBankroll)
    /\ RLess(startingBankroll, maxBankroll)

(* Once the bankroll is below the base bet between calls, no step changes  *)
(* the bankroll, the hand counters or totalWagered.                        *)
TerminalOnceBroke ==
    (pc = "idle" /\ RLess(bankroll, baseBet))
       => UNCHANGED <<bankroll, handsPlayed, handsWon, handsLost, handsPushed,
                      totalWagered>>

(* A call that is neither sat out nor stopped for lack of funds ends with  *)
(* a hand resolved.                                                        *)
FundedCallResolves ==
    (pc' = "idle" /\ handData' # handData
        /\ handData'.result \notin {"satOut", "outOfMoney"})
       => /\ handData'.result \in ResolvedResults
          /\ handsPlayed' = handsPlayed + 1

(* C25: once bankroll < baseBet holds after some playHand call, no later   *)
(* call changes bankroll, handsPlayed, handsWon, handsLost, handsPushed or *)
(* totalWagered; and while the bankroll covers the computed bet and the    *)
(* round is not sat out, every call resolves a hand.                       *)
C25_TerminalExactlyWhenBroke == [][TerminalOnceBroke /\ FundedCallResolves]_vars

(* A funded, played call that resolved no hand, in a session whose         *)
(* bankroll still covers the base bet.                                     *)
C25_FundedCallUnresolved ==
    /\ pc = "idle"
    /\ handData.result = "IndexError"
    /\ RLeq(handData.bet, handData.bankrollBefore)
    /\ RLeq(baseBet, bankroll)
    /\ penetration \in 1..99

(* What the program does keep: the first half of C25, and the second half  *)
(* for the calls that found a card at every draw.                          *)
C25_TerminalOnceBrokeAlone ==
    [][/\ TerminalOnceBroke
       /\ handData'.result # "IndexError" => FundedCallResolves]_vars

(* C26: starting from a positive startingBankroll and a positive baseBet,  *)
(* the bankroll is never negative after any sequence of playHand calls.    *)
C26_BankrollNeverNegative ==
    (RLess(R(0), startingBankroll) /\ RLess(R(0), baseBet)) => RLeq(R(0), bankroll)

(* A doubled hand was lost for a wager above the bankroll the call started *)
(* with.                                                                   *)
C26_DoubledBeyondBankroll ==
    /\ pc = "idle"
    /\ RLess(R(0), startingBankroll) /\ RLess(R(0), baseBet)
    /\ handData.result \in {"playerBust", "dealerWin"}
    /\ RLess(handData.bankrollBefore, RNeg(handData.profit))

(* The step ends a call that returns a profit.                             *)
ReturnsInStep == pc' = "idle" /\ handData' # handData /\ handData'.result # "IndexError"

(* C27: for every playHand call the returned profit equals the bankroll    *)
(* after the call minus the bankroll before it; it is positive exactly     *)
(* when handsWon was incremented, negative exactly when handsLost was      *)
(* incremented, and zero for a push, a sat-out round and an                *)
(* insufficient-funds abort.                                               *)
C27_ProfitIsBankrollChange ==
    [][ReturnsInStep
          => LET profit == handData'.profit
             IN  /\ profit = RSub(bankroll', bankroll)
                 /\ bankroll = handData'.bankrollBefore
                 /\ RLess(R(0), profit) <=> handsWon' = handsWon + 1
                 /\ RLess(profit, R(0)) <=> handsLost' = handsLost + 1
                 /\ handData'.result \in {"push", "satOut", "outOfMoney"}
                       => profit = R(0)]_vars

(* A hand won at a zero bet: handsWon was incremented and the profit is 0. *)
C27_WonForNothing ==
    /\ pc = "idle"
    /\ handData.result = "playerWin"
    /\ handData.profit = R(0)
    /\ handsWon = 1

(* C27 for the sessions whose base bet is positive.                        *)
C27_ProfitWithPositiveBet ==
    [][(ReturnsInStep /\ RLess(R(0), baseBet))
          => LET profit == handData'.profit
             IN  /\ profit = RSub(bankroll', bankroll)
                 /\ RLess(R(0), profit) <=> handsWon' = handsWon + 1
                 /\ RLess(profit, R(0)) <=> handsLost' = handsLost + 1
                 /\ handData'.result \in {"push", "satOut", "outOfMoney"}
                       => profit = R(0)]_vars

----------------------------------------------------------------------------
(* Properties of the player's turn, checked under SpecTurn.                *)

(* The step ends the player's turn.                                        *)
TurnEndsInStep == pc = "player" /\ pc' # "player"

(* C28: getAction never returns Split when canSplit is false or the hand   *)
(* is not a two-card pair of equal values; so the loop of playPlayerHand,  *)
(* which passes canSplit = false, only ever sees Hit, Stand or Double, and *)
(* the turn ends after finitely many draws: by Stand, by a completed       *)
(* Double or by a bust whenever the shoe had a card for every draw.        *)
C28_NoSplitAndTurnEnds ==
    /\ []((Probed /\ (~probe.canSplit \/ ~PairAsStated(probe.hand)))
             => probe.result # "Split")
    /\ [](pc = "player" => PlayerAction \in {"Hit", "Stand", "Double Down"})
    /\ [][TurnEndsInStep
             => \/ pc' = "dealer" /\ playerHand' = playerHand /\ ~isDoubled'
                \/ pc' = "dealer" /\ isDoubled' /\ Len(playerHand') = 3
                      /\ handData'.drawn = handData.drawn + 1
                \/ pc' = "idle" /\ handData'.result = "playerBust"
                      /\ handData'.drawn = handData.drawn + 1
                \/ pc' = "idle" /\ handData'.result = "IndexError"
                      /\ CardsRemaining(cards) = 0]_vars
    /\ (pc = "player") ~> (pc # "player")

(* The player stood on a hand of five cards.                               *)
C28_StoodAfterThreeDraws ==
    /\ pc = "dealer"
    /\ Len(playerHand) = 5
    /\ ~isDoubled

----------------------------------------------------------------------------
(* Properties of the shoe and the counter, checked under SpecShoe.         *)

(* The sum of the Hi-Lo deltas of the cards of a shoe.                     *)
RECURSIVE DeltaSum(_, _)
DeltaSum(deck, ranks) ==
    IF ranks = {} THEN 0
    ELSE LET r == CHOOSE x \in ranks : TRUE
         IN  DeltaAsStated(r) * deck[r] + DeltaSum(deck, ranks \ {r})

(* C29: after any sequence of playHand calls the cards left in the shoe    *)
(* and the cards drawn since the last rebuild are together numDecks copies *)
(* of each of the 13 ranks in each of the 4 suits; runningCount is the     *)
(* negated sum of the Hi-Lo deltas of the cards still in the shoe; and     *)
(* |runningCount| <= 20 * numDecks.                                        *)
C29_ShoeConservedCountBounded ==
    probe.fn = "Deck"
       => /\ DOMAIN cards = RankSet /\ Cardinality(RankSet) = 13
          /\ \A r \in RankSet : cards[r] + probe.drawn[r] = 4 * numDecks
          /\ runningCount = 0 - DeltaSum(cards, RankSet)
          /\ runningCount <= 20 * numDecks
          /\ 0 - runningCount <= 20 * numDecks

(* Every low card and four neutral cards are out of the shoe: the count is *)
(* at its bound.                                                           *)
C29_CountAtBound ==
    /\ probe.fn = "Deck"
    /\ probe.calls = 2
    /\ cardsSeen = 24
    /\ runningCount = 20

----------------------------------------------------------------------------
(* The web handler against BlackjackGame.playHand, checked under SpecApp.  *)

(* The step is the entry step of a play-hand request.                      *)
RequestEntersInStep == pc = "idle" /\ handData'.result # "none"

(* What playHand leaves at lines 441-521 from the state the step starts    *)
(* in: a sat-out round burns up to four cards and counts as sat out; a bet *)
(* above the bankroll ends the call with nothing changed but a rebuilt     *)
(* shoe; otherwise up to four cards are dealt.                             *)
AsPlayHandAtEntry ==
    LET e == Entry
        left == CardsRemaining(e.deck)
        dealt == IF left < 4 THEN left ELSE 4
    IN  IF e.sitsOut
        THEN /\ cardsSeen' = e.seen + dealt
             /\ handsSatOut' = handsSatOut + 1
             /\ UNCHANGED <<moneyVars, handsPlayed, handsWon, handsLost, handsPushed,
                            totalWagered>>
        ELSE IF RLess(bankroll, e.bet)
        THEN /\ cards' = e.deck
             /\ runningCount' = e.count
             /\ cardsSeen' = e.seen
             /\ pc' = "idle"
             /\ UNCHANGED <<moneyVars, statVars>>
        ELSE /\ cardsSeen' = e.seen + dealt
             /\ handsSatOut' = handsSatOut

(* What playHand has added to totalWagered when a hand is resolved: the    *)
(* bet placed at the deal (line 521), whatever the hand was settled at.    *)
AsPlayHandAtEnd ==
    LET placed == IF pc = "idle" THEN Entry.bet
                  ELSE IF isDoubled THEN RDiv(betAmount, R(2)) ELSE betAmount
    IN  totalWagered' = RAdd(totalWagered, placed)

(* C30: for the same session state at entry and the same shoe order, the   *)
(* web handler leaves shoe, counter, bankroll, its minimum and maximum,    *)
(* the hand counters and totalWagered as BlackjackGame.playHand would, on  *)
(* every path: sat out, insufficient funds, blackjack, bust, double and    *)
(* settlement.                                                             *)
C30_HandlerLeavesEngineState ==
    [][/\ RequestEntersInStep => AsPlayHandAtEntry
       /\ (pc' = "idle" /\ handData'.result \in ResolvedResults) => AsPlayHandAtEnd]_vars

(* The handler played and lost a hand whose bet the bankroll did not       *)
(* cover.                                                                  *)
C30_PlayedWithoutFunds ==
    /\ pc = "idle"
    /\ handData.result = "dealerBlackjack"
    /\ RLess(handData.bankrollBefore, handData.bet)
    /\ handsLost = 1

(* The engine meets the entry conditions, and the end condition for a hand *)
(* resolved in the entry step.                                             *)
C30_EngineLeavesEngineState ==
    [][/\ RequestEntersInStep => AsPlayHandAtEntry
       /\ (pc = "idle" /\ pc' = "idle" /\ handData'.result \in ResolvedResults)
             => AsPlayHandAtEnd]_vars

----------------------------------------------------------------------------
(* Properties of the session statistics, checked under SpecStats.          *)

(* C31: for every session, whatever its configured startingBankroll, the   *)
(* profit reported in the session statistics is the current bankroll minus *)
(* that session's starting bankroll, and so 0 before any hand is played.   *)
C31_ProfitFromStartingBankroll ==
    (probe.fn = "getStats" /\ probe.game)
       => /\ probe.profit = RSub(bankroll, startingBankroll)
          /\ (handsPlayed = 0 /\ handsSatOut = 0) => probe.profit = R(0)

(* The statistics of a session started with a bankroll of 15, asked for    *)
(* after one hand was won.                                                 *)
C31_StatsAfterWinOnFifteen ==
    /\ probe.fn = "getStats" /\ probe.game
    /\ startingBankroll = R(15)
    /\ handsPlayed = 1 /\ handsWon = 1
    /\ RLess(startingBankroll, bankroll)

(* What the statistics do report: the bankroll less 1000.                  *)
C31_ProfitFromThousand ==
    (probe.fn = "getStats" /\ probe.game) => probe.profit = RSub(bankroll, R(1000))

=============================================================================
